---- MODULE Spec2Model ----
(***************************************************************************)
(* A model of the WordPress -> Contentful migration script                 *)
(* (src/unnamed/part_000): the paginated fetcher, the normalisation of     *)
(* the fetched posts, and the staged publishing of assets and entries.     *)
(***************************************************************************)
EXTENDS Integers, Sequences, FiniteSets, TLC

(***************************************************************************)
(* Bounds of the model.                                                    *)
(***************************************************************************)
\* largest number of items a source collection holds in the fetcher runs
MaxN == 103
\* largest cap (totalItemsNeeded) handed to the fetcher in the fetcher runs
MaxM == 103
\* largest number of posts the WordPress site holds in the pipeline runs
MaxPosts == 2
\* largest number of image references (featured + body) over all posts
MaxImages == 2
\* number of tags, of categories and of media records the site holds
NumTags == 2
NumCategories == 2
NumMedia == 2
\* largest number of page requests that fail in one run
MaxPageFailures == 1
\* largest number of characters of a markdown text
MaxMdLen == 7
\* the fetcher against any source: the largest cap and total, and the most
\* items a page is answered with
MaxAnyCap == 5
MaxPageItems == 3

(***************************************************************************)
(* Program constants.                                                      *)
(***************************************************************************)
\* const maxPerPage = 100; // WordPress default limit
maxPerPage == 100

\* importPostCount of config.template.js
importPostCount == 2
\* const maxItems = endpoint === 'media' ? 100 : 50
maxItemsMedia == 100
maxItemsLabels == 50

\* Object.keys(wpData): the resource kinds, in the order of the fetches
Endpoints == <<"posts", "tags", "categories", "media">>

Kinds == {Endpoints[i] : i \in 1..Len(Endpoints)}

Min(a, b) == IF a < b THEN a ELSE b

\* ceil(n / d) for n >= 0, d > 0
CeilDiv(n, d) == (n + d - 1) \div d

VARIABLES
  srcCount,      \* [kind -> number of items the source holds]
  srcTotal,      \* TRUE when the source sends the x-wp-total header
  cap,           \* [kind -> totalItemsNeeded of the fetch of that kind]
  fstate,        \* [kind -> "idle" | "running" | "returned"]
  allData,       \* [kind -> items accumulated so far (indices into the source)]
  page,          \* [kind -> next page number]
  hasMorePages,  \* [kind -> loop flag]
  requests,      \* [kind -> log of the page requests: page, per_page, items held, outcome]
  pageFailed,    \* [kind -> TRUE once a page request has failed]
  result         \* [kind -> value the fetch resolved to, or NoResult]

fetchVars == <<srcCount, srcTotal, cap, fstate, allData, page, hasMorePages,
               requests, pageFailed, result>>

VARIABLES
  config,        \* config.js: [hasCredentials, tokenFormatOk, contentFormat]
  srcPosts,      \* the posts of the WordPress site (raw records)
  pc,            \* the stage the run is in
  exitCode,      \* -1 while the process runs, else its exit code
  exitReason,    \* the diagnostic of the exit
  netUsed,       \* TRUE once a network request has been issued
  apiData,       \* let apiData: the fetch results, one per endpoint
  wpPosts,       \* wpData.posts: the normalized posts
  mapThrew,      \* TRUE when mapData raised an exception
  snapshot       \* fs.writeFile of wpPosts.json: status "none" | "pending" |
                 \* "settled", and the data handed to it

pipeVars == <<config, srcPosts, pc, exitCode, exitReason, netUsed,
              apiData, wpPosts, mapThrew, snapshot>>

VARIABLES
  assetPromises, \* the asset objects built by buildContentfulAssets
  atask,         \* per asset object, the state of its upload task
  assets,        \* the collector of createContentfulAssets: {assetId, fileName}
  ctfAssets,     \* contentfulData.assets: the URLs of the published assets
  postsThrew,    \* TRUE when createContentfulPosts raised an exception
  payloads,      \* the entry payloads built by createContentfulPosts
  etask          \* per payload, the state of its entry task

pubVars == <<assetPromises, atask, assets, ctfAssets, postsThrew, payloads, etask>>

VARIABLES
  markdown,      \* a markdown text handed to the line classification
  document       \* the RichText document made of it, or NoDocument

convVars == <<markdown, document>>

vars == <<fetchVars, pipeVars, pubVars, convVars>>

NoResult == [success |-> FALSE, data |-> <<>>, error |-> "pending"]

(***************************************************************************)
(* The source: a collection of n items that honours per_page and page.     *)
(* Page p with per_page s is items (p-1)*s+1 .. min(p*s, n).               *)
(***************************************************************************)
ServePage(n, p, s) ==
  LET lo == (p - 1) * s + 1
      hi == Min(p * s, n)
  IN  IF lo > hi THEN <<>> ELSE [i \in 1..(hi - lo + 1) |-> lo + i - 1]

(***************************************************************************)
(* fetchDataWithPagination: one iteration of the while loop, from the      *)
(* request to the next suspension (the next request, or the return of the  *)
(* function when the loop condition has become false).                     *)
(***************************************************************************)
\* variant: every page asks for a full page
itemsToFetchFullPage(k) == maxPerPage

itemsToFetch(k) == Min(maxPerPage, cap[k] - Len(allData[k]))

LoopGuard(more, len, m) == more /\ len < m

\* response.headers['x-wp-total'] ? parseInt(...) : null ; null and 0 are falsy
TotalReached(k, len) == srcTotal /\ srcCount[k] # 0 /\ len >= srcCount[k]

\* return { success, data, error }
FetchResult(data) ==
  [success |-> Len(data) > 0,
   data    |-> data,
   error   |-> IF Len(data) = 0 THEN "No data retrieved" ELSE "null"]

\* the loop variables after an iteration, and the return when the loop ends
LoopStep(k, acc, nextPage, more) ==
  /\ allData' = [allData EXCEPT ![k] = acc]
  /\ page' = [page EXCEPT ![k] = nextPage]
  /\ hasMorePages' = [hasMorePages EXCEPT ![k] = more]
  /\ IF LoopGuard(more, Len(acc), cap[k])
     THEN UNCHANGED <<fstate, result>>
     ELSE /\ fstate' = [fstate EXCEPT ![k] = "returned"]
          /\ result' = [result EXCEPT ![k] = FetchResult(acc)]

\* variant: an empty page does not end the loop
PageResponseEmptyGoesOn(k, data) ==
  IF Len(data) = 0
  THEN LoopStep(k, allData[k], page[k], hasMorePages[k])
  ELSE LoopStep(k, allData[k] \o data, page[k] + 1,
                ~TotalReached(k, Len(allData[k]) + Len(data)))

\* the request of the iteration is answered
PageResponse(k, data) ==
  IF Len(data) = 0
  THEN LoopStep(k, allData[k], page[k], FALSE)
  ELSE LoopStep(k, allData[k] \o data, page[k] + 1,
                ~TotalReached(k, Len(allData[k]) + Len(data)))

\* variant: a failed page leaves the loop flag alone
PageErrorGoesOn(k) == LoopStep(k, allData[k], page[k], hasMorePages[k])

\* the request of the iteration throws: catch (error) { hasMorePages = false }
PageError(k) == LoopStep(k, allData[k], page[k], FALSE)

FetchPageOk(k) ==
  /\ fstate[k] = "running"
  /\ requests' = [requests EXCEPT
                    ![k] = Append(@, [page |-> page[k],
                                      per_page |-> itemsToFetch(k),
                                      have |-> Len(allData[k]),
                                      ok |-> TRUE])]
  /\ PageResponse(k, ServePage(srcCount[k], page[k], itemsToFetch(k)))
  /\ UNCHANGED <<srcCount, srcTotal, cap, pageFailed>>
  /\ UNCHANGED <<pipeVars, pubVars, convVars>>

FailureCount == Cardinality({k \in Kinds : pageFailed[k]})

FetchPageFail(k) ==
  /\ fstate[k] = "running"
  /\ FailureCount < MaxPageFailures
  /\ requests' = [requests EXCEPT
                    ![k] = Append(@, [page |-> page[k],
                                      per_page |-> itemsToFetch(k),
                                      have |-> Len(allData[k]),
                                      ok |-> FALSE])]
  /\ pageFailed' = [pageFailed EXCEPT ![k] = TRUE]
  /\ PageError(k)
  /\ UNCHANGED <<srcCount, srcTotal, cap>>
  /\ UNCHANGED <<pipeVars, pubVars, convVars>>

(***************************************************************************)
(* The WordPress site of a pipeline run.  An item of a collection is       *)
(* identified by its position in the collection, which is also its id.     *)
(***************************************************************************)
\* an id no tag, category or media record carries
MissingId == NumTags + NumCategories + NumMedia + 1

LabelName(kind, i) ==
  IF kind = "tags"
  THEN (IF i = 1 THEN "Go" ELSE IF i = 2 THEN "Rust" ELSE "Tag" \o ToString(i))
  ELSE (IF i = 1 THEN "News" ELSE IF i = 2 THEN "Tech" ELSE "Cat" \o ToString(i))

MediaFile(i) == IF i = 1 THEN "a.jpg" ELSE IF i = 2 THEN "b.jpg"
                ELSE "m" \o ToString(i) \o ".jpg"

\* a URL is the sequence of its path segments
MediaRec(i) == [id |-> i,
                source_url |-> <<"wp-content", MediaFile(i)>>,
                alt_text |-> IF i = 1 THEN "" ELSE "Logo",
                post |-> i]

\* the <img> tags a post body can hold; alt = "" stands for no alt value
ImgA == [src |-> <<"uploads", "a.jpg">>, alt |-> "Diagram"]
ImgC == [src |-> <<"uploads", "c.jpg">>, alt |-> ""]

BodyChoices == {<<>>, <<ImgA>>, <<ImgC, ImgA>>}

PostShapes == [fm : {"none", "own", "missing"}, body : BodyChoices]

\* postData.featured_media of a record without the property: undefined,
\* which is neither > 0 nor === 0 nor the id of a media record
Absent == -1

\* the posts of a site some of whose records have no featured_media
AbsentShapes == [fm : {"absent", "none", "own"}, body : {<<>>, <<ImgA>>}]

ShapeImages(sh) == (IF sh.fm \in {"none", "absent"} THEN 0 ELSE 1) + Len(sh.body)

RECURSIVE SumImages(_)
SumImages(shs) ==
  IF Len(shs) = 0 THEN 0 ELSE ShapeImages(Head(shs)) + SumImages(Tail(shs))

PostRec(i, sh) ==
  [id             |-> i,
   type           |-> "post",
   slug           |-> "post-" \o ToString(i),
   featured_media |-> IF sh.fm = "none" THEN 0
                      ELSE IF sh.fm = "own" THEN i
                      ELSE IF sh.fm = "absent" THEN Absent ELSE MissingId,
   tags           |-> IF i % 2 = 1 THEN <<2, MissingId, 1>> ELSE <<>>,
   categories     |-> IF i % 2 = 1 THEN <<1>> ELSE <<2, 1>>,
   content        |-> sh.body]

\* the posts past the first importPostCount are never requested: they are
\* plain posts
Sites ==
  {[i \in 1..Len(shs) |-> PostRec(i, shs[i])] :
     shs \in {x \in UNION {[1..n -> PostShapes] : n \in 0..MaxPosts} :
                /\ SumImages(x) <= MaxImages
                /\ \A i \in 1..Len(x) :
                     i > importPostCount => x[i] = [fm |-> "none", body |-> <<>>]}}

AbsentSites ==
  {[i \in 1..Len(shs) |-> PostRec(i, shs[i])] :
     shs \in {x \in UNION {[1..n -> AbsentShapes] : n \in 0..MaxPosts} :
                /\ SumImages(x) <= MaxImages
                /\ \A i \in 1..Len(x) :
                     i > importPostCount => x[i] = [fm |-> "none", body |-> <<>>]}}

(***************************************************************************)
(* Normalisation of the fetched posts (mapData and its helpers).           *)
(***************************************************************************)
FileName(link) == link[Len(link)]

\* variant: the filter does not look at the endpoint
getApiDataTypeAnyKind(api, resourceName) ==
  SelectSeq(api, LAMBDA obj : obj.success)

\* apiData.filter(obj => obj && obj.endpoint === resourceName && obj.success)
getApiDataType(api, resourceName) ==
  SelectSeq(api, LAMBDA obj : obj.endpoint = resourceName /\ obj.success)

\* variant: an ID that is not found leaves a placeholder
RECURSIVE ResolveLabelsPlaceholder(_, _, _)
ResolveLabelsPlaceholder(postItems, labelType, data) ==
  IF Len(postItems) = 0 THEN <<>>
  ELSE LET labelId == Head(postItems)
           labelName == SelectSeq(data, LAMBDA j : j = labelId)
           rest == ResolveLabelsPlaceholder(Tail(postItems), labelType, data)
       IN  IF Len(labelName) > 0
           THEN <<LabelName(labelType, labelName[1])>> \o rest
           ELSE <<"undefined">> \o rest

\* the loop over postItems
RECURSIVE ResolveLabels(_, _, _)
ResolveLabels(postItems, labelType, data) ==
  IF Len(postItems) = 0 THEN <<>>
  ELSE LET labelId == Head(postItems)
           labelName == SelectSeq(data, LAMBDA j : j = labelId)
           rest == ResolveLabels(Tail(postItems), labelType, data)
       IN  IF Len(labelName) > 0
           THEN <<LabelName(labelType, labelName[1])>> \o rest
           ELSE rest

getPostLabels(api, postItems, labelType) ==
  LET apiTag == getApiDataType(api, labelType)
  IN  IF Len(apiTag) = 0 THEN <<>>
      ELSE ResolveLabels(postItems, labelType, apiTag[1].data)

\* variant: the alt value is taken as it is, empty or not
BodyImageNoDefault(postData, tag) ==
  [link |-> tag.src, description |-> tag.alt, title |-> tag.alt,
   postId |-> postData.id, featured |-> FALSE]

BodyImage(postData, tag) ==
  LET alt == IF tag.alt # "" THEN tag.alt
             ELSE "Image from post " \o ToString(postData.id)
  IN  [link |-> tag.src, description |-> alt, title |-> alt,
       postId |-> postData.id, featured |-> FALSE]

FeaturedImage(postData, mediaObj) ==
  LET alt == IF mediaObj.alt_text # "" THEN mediaObj.alt_text
             ELSE "Featured image for post " \o ToString(postData.id)
  IN  [link |-> mediaObj.source_url, description |-> alt, title |-> alt,
       postId |-> mediaObj.post, featured |-> TRUE]

\* variant: the featured image is pushed after the body images
getPostBodyImagesFeaturedLast(api, postData) ==
  LET body == [i \in 1..Len(postData.content) |->
                 BodyImage(postData, postData.content[i])]
  IN  IF postData.featured_media > 0
      THEN LET mediaData == getApiDataType(api, "media")
           IN  IF Len(mediaData) = 0
               THEN [threw |-> TRUE, images |-> <<>>]
               ELSE LET mediaObj == SelectSeq(mediaData[1].data,
                                      LAMBDA j : j = postData.featured_media)
                    IN  IF Len(mediaObj) > 0
                        THEN [threw |-> FALSE,
                              images |-> body \o <<FeaturedImage(postData,
                                             MediaRec(mediaObj[1]))>>]
                        ELSE [threw |-> FALSE, images |-> body]
      ELSE [threw |-> FALSE, images |-> body]

\* [threw |-> TRUE] when mediaData is undefined and mediaData.data is read
getPostBodyImages(api, postData) ==
  LET body == [i \in 1..Len(postData.content) |->
                 BodyImage(postData, postData.content[i])]
  IN  IF postData.featured_media > 0
      THEN LET mediaData == getApiDataType(api, "media")
           IN  IF Len(mediaData) = 0
               THEN [threw |-> TRUE, images |-> <<>>]
               ELSE LET mediaObj == SelectSeq(mediaData[1].data,
                                      LAMBDA j : j = postData.featured_media)
                    IN  IF Len(mediaObj) > 0
                        THEN [threw |-> FALSE,
                              images |-> <<FeaturedImage(postData,
                                             MediaRec(mediaObj[1]))>> \o body]
                        ELSE [threw |-> FALSE, images |-> body]
      ELSE [threw |-> FALSE, images |-> body]

fieldData(api, postData) ==
  [id            |-> postData.id,
   type          |-> postData.type,
   postTitle     |-> "Title " \o ToString(postData.id),
   slug          |-> postData.slug,
   content       |-> postData.content,
   publishDate   |-> "2020-01-0" \o ToString(postData.id) \o "+00:00",
   featuredImage |-> postData.featured_media,
   tags          |-> getPostLabels(api, postData.tags, "tags"),
   categories    |-> getPostLabels(api, postData.categories, "categories"),
   contentImages |-> getPostBodyImages(api, postData).images]

(***************************************************************************)
(* The run, up to the end of mapData.                                      *)
(***************************************************************************)
\* variant: every exit reports success
ExitZero(code, reason) ==
  /\ pc' = "exited"
  /\ exitCode' = 0
  /\ exitReason' = reason

Exit(code, reason) ==
  /\ pc' = "exited"
  /\ exitCode' = code
  /\ exitReason' = reason

\* variant: the token format is checked after the first request is issued
LoadConfigLate ==
  /\ pc = "load"
  /\ IF ~config.hasCredentials
     THEN Exit(1, "missing configuration") /\ UNCHANGED netUsed
     ELSE IF ~config.tokenFormatOk
     THEN Exit(1, "invalid token format") /\ netUsed' = TRUE
     ELSE /\ pc' = "connTest"
          /\ netUsed' = TRUE
          /\ UNCHANGED <<exitCode, exitReason>>
  /\ UNCHANGED <<config, srcPosts, apiData, wpPosts, mapThrew, snapshot>>
  /\ UNCHANGED <<fetchVars, pubVars, convVars>>

\* module load: the configuration checks, then migrateContent() issues the
\* first request of testContentfulConnection
LoadConfig ==
  /\ pc = "load"
  /\ IF ~config.hasCredentials
     THEN Exit(1, "missing configuration") /\ UNCHANGED netUsed
     ELSE IF ~config.tokenFormatOk
     THEN Exit(1, "invalid token format") /\ UNCHANGED netUsed
     ELSE /\ pc' = "connTest"
          /\ netUsed' = TRUE
          /\ UNCHANGED <<exitCode, exitReason>>
  /\ UNCHANGED <<config, srcPosts, apiData, wpPosts, mapThrew, snapshot>>
  /\ UNCHANGED <<fetchVars, pubVars, convVars>>

\* testContentfulConnection resolves; checkWordPressPostCount issues its request
TestConnectionOk ==
  /\ pc = "connTest"
  /\ pc' = "postCount"
  /\ UNCHANGED <<config, srcPosts, exitCode, exitReason, netUsed,
                 apiData, wpPosts, mapThrew, snapshot>>
  /\ UNCHANGED <<fetchVars, pubVars, convVars>>

\* getSpace or getEnvironment rejects (401, 404, ...): process.exit(1)
TestConnectionFail ==
  /\ pc = "connTest"
  /\ Exit(1, "connection test failed")
  /\ UNCHANGED <<config, srcPosts, netUsed, apiData, wpPosts,
                 mapThrew, snapshot>>
  /\ UNCHANGED <<fetchVars, pubVars, convVars>>

\* checkWordPressPostCount settles (its failure is caught and logged); the
\* four fetches start, each up to its first page request
StartFetches ==
  /\ pc = "postCount"
  /\ pc' = "fetching"
  /\ fstate' = [k \in Kinds |-> "running"]
  /\ UNCHANGED <<srcCount, srcTotal, cap, allData, page, hasMorePages,
                 requests, pageFailed, result>>
  /\ UNCHANGED <<config, srcPosts, exitCode, exitReason, netUsed,
                 apiData, wpPosts, mapThrew, snapshot>>
  /\ UNCHANGED <<pubVars, convVars>>

\* Promise.all(fetchPromises).then(results => { apiData = results; mapData() })
\*   .catch(error => process.exit(1))
Results == [i \in 1..Len(Endpoints) |->
              [success  |-> result[Endpoints[i]].success,
               data     |-> result[Endpoints[i]].data,
               error    |-> result[Endpoints[i]].error,
               endpoint |-> Endpoints[i]]]

\* variant: continue as soon as the posts have been fetched
FetchesDonePostsOnly == fstate["posts"] = "returned"

\* Promise.all(fetchPromises) resolves
FetchesDone == \A k \in Kinds : fstate[k] = "returned"

NoSnapshot == [status |-> "none", data |-> <<>>]

\* variant: the snapshot is not written
writeDataToFileSkipped(dataTree) == NoSnapshot

\* fs.writeFile is called with JSON.stringify(dataTree); its callback is pending
writeDataToFile(dataTree) == [status |-> "pending", data |-> dataTree]

MapData ==
  /\ pc = "fetching"
  /\ FetchesDone
  /\ apiData' = Results
  /\ LET apiPostsArray == SelectSeq(Results,
                            LAMBDA item : item.endpoint = "posts" /\ item.success)
     IN  IF Len(apiPostsArray) = 0
         THEN /\ Exit(1, "no posts data found")
              /\ UNCHANGED <<wpPosts, mapThrew, snapshot>>
         ELSE LET apiPosts == apiPostsArray[1]
                  posts == [i \in 1..Len(apiPosts.data) |->
                              srcPosts[apiPosts.data[i]]]
              IN  IF Len(apiPosts.data) = 0
                  THEN /\ Exit(0, "no posts found to migrate")
                       /\ UNCHANGED <<wpPosts, mapThrew, snapshot>>
                  ELSE IF \E i \in 1..Len(posts) :
                            getPostBodyImages(Results, posts[i]).threw
                  THEN LET first == CHOOSE i \in 1..Len(posts) :
                                      /\ getPostBodyImages(Results, posts[i]).threw
                                      /\ \A j \in 1..(i - 1) :
                                           ~getPostBodyImages(Results, posts[j]).threw
                       IN  /\ Exit(1, "error fetching WordPress data")
                           /\ mapThrew' = TRUE
                           /\ wpPosts' = [i \in 1..(first - 1) |->
                                            fieldData(Results, posts[i])]
                           /\ UNCHANGED snapshot
                  ELSE /\ wpPosts' = [i \in 1..Len(posts) |->
                                        fieldData(Results, posts[i])]
                       /\ snapshot' = writeDataToFile(
                                         [i \in 1..Len(posts) |->
                                            fieldData(Results, posts[i])])
                       /\ pc' = "ctfConnect"
                       /\ UNCHANGED <<exitCode, exitReason, mapThrew>>
  /\ UNCHANGED <<config, srcPosts, netUsed>>
  /\ UNCHANGED <<fetchVars, pubVars, convVars>>

\* the callback of fs.writeFile runs (with or without err: it only logs)
WriteFileDone ==
  /\ snapshot.status = "pending"
  /\ exitCode = -1
  /\ snapshot' = [snapshot EXCEPT !.status = "settled"]
  /\ UNCHANGED <<config, srcPosts, pc, exitCode, exitReason, netUsed,
                 apiData, wpPosts, mapThrew>>
  /\ UNCHANGED <<fetchVars, pubVars, convVars>>

(***************************************************************************)
(* The destination checks before publishing.                               *)
(***************************************************************************)
\* createForContentful: getSpace and getEnvironment resolve;
\* checkExistingContentTypes issues getContentTypes
CtfConnectOk ==
  /\ pc = "ctfConnect"
  /\ pc' = "checkTypes"
  /\ UNCHANGED <<config, srcPosts, exitCode, exitReason, netUsed,
                 apiData, wpPosts, mapThrew, snapshot>>
  /\ UNCHANGED <<fetchVars, pubVars, convVars>>

CtfConnectFail ==
  /\ pc = "ctfConnect"
  /\ Exit(1, "error connecting to Contentful")
  /\ UNCHANGED <<config, srcPosts, netUsed, apiData, wpPosts, mapThrew, snapshot>>
  /\ UNCHANGED <<fetchVars, pubVars, convVars>>

\* variant: one asset object per post, for its first image
RECURSIVE FlattenImagesFirstOnly(_)
FlattenImagesFirstOnly(posts) ==
  IF Len(posts) = 0 THEN <<>>
  ELSE LET wpPost == Head(posts)
       IN  [imgIndex \in 1..(IF Len(wpPost.contentImages) > 0 THEN 1 ELSE 0) |->
              LET contentImage == wpPost.contentImages[imgIndex]
              IN  [title       |-> contentImage.title,
                   description |-> contentImage.description,
                   fileName    |-> FileName(contentImage.link),
                   upload      |-> contentImage.link]]
           \o FlattenImagesFirstOnly(Tail(posts))

\* buildContentfulAssets: one asset object per image of every post
RECURSIVE FlattenImages(_)
FlattenImages(posts) ==
  IF Len(posts) = 0 THEN <<>>
  ELSE LET wpPost == Head(posts)
       IN  [imgIndex \in 1..Len(wpPost.contentImages) |->
              LET contentImage == wpPost.contentImages[imgIndex]
              IN  [title       |-> contentImage.title,
                   description |-> contentImage.description,
                   fileName    |-> FileName(contentImage.link),
                   upload      |-> contentImage.link]]
           \o FlattenImages(Tail(posts))

\* the target content type is listed: buildContentfulAssets runs and
\* createContentfulAssets schedules one timer per asset object
ContentTypeFound ==
  /\ pc = "checkTypes"
  /\ pc' = "assets"
  /\ assetPromises' = FlattenImages(wpPosts)
  /\ atask' = [i \in 1..Len(FlattenImages(wpPosts)) |-> "timer"]
  /\ UNCHANGED <<assets, ctfAssets, postsThrew, payloads, etask>>
  /\ UNCHANGED <<config, srcPosts, exitCode, exitReason, netUsed,
                 apiData, wpPosts, mapThrew, snapshot>>
  /\ UNCHANGED <<fetchVars, convVars>>

ContentTypeMissing ==
  /\ pc = "checkTypes"
  /\ Exit(1, "content type not found")
  /\ UNCHANGED <<config, srcPosts, netUsed, apiData, wpPosts, mapThrew, snapshot>>
  /\ UNCHANGED <<fetchVars, pubVars, convVars>>

ContentTypesError ==
  /\ pc = "checkTypes"
  /\ Exit(1, "error checking content types")
  /\ UNCHANGED <<config, srcPosts, netUsed, apiData, wpPosts, mapThrew, snapshot>>
  /\ UNCHANGED <<fetchVars, pubVars, convVars>>

(***************************************************************************)
(* createContentfulAssets: the task of asset object i.                     *)
(*   "timer" -> "creating" -> "processing" -> "publishing" -> "published"  *)
(* and "failed" from any of the three requests.                            *)
(***************************************************************************)
Settled(tasks) == \A i \in 1..Len(tasks) : tasks[i] \in {"published", "failed"}

\* variant: the request of a task waits for the earlier tasks to settle
TimerFiresSerial(tasks, i) ==
  /\ tasks[i] = "timer"
  /\ \A j \in 1..(i - 1) : tasks[j] \in {"published", "failed"}

\* setTimeout(..., 1000 + 5000 * index) expires: createAsset is requested
TimerFires(tasks, i) ==
  /\ tasks[i] = "timer"
  /\ \A j \in 1..(i - 1) : tasks[j] # "timer"

\* variant: publish is called on the asset createAsset returned
AssetNextStateUnprocessed(st) ==
  IF st = "creating" THEN "publishing" ELSE "published"

AssetNextState(st) ==
  IF st = "creating" THEN "processing"
  ELSE IF st = "processing" THEN "publishing" ELSE "published"

AssetTimer(i) ==
  /\ pc = "assets"
  /\ TimerFires(atask, i)
  /\ atask' = [atask EXCEPT ![i] = "creating"]
  /\ UNCHANGED <<assetPromises, assets, ctfAssets, postsThrew, payloads, etask>>
  /\ UNCHANGED <<fetchVars, pipeVars, convVars>>

\* variant: a published task also adds its URL to contentfulData.assets
AssetStepOkWritesMap(i) ==
  /\ pc = "assets"
  /\ atask[i] \in {"creating", "processing", "publishing"}
  /\ atask' = [atask EXCEPT ![i] = AssetNextState(@)]
  /\ assets' = IF atask[i] = "publishing"
               THEN Append(assets, [assetId |-> i,
                                    fileName |-> assetPromises[i].fileName])
               ELSE assets
  /\ ctfAssets' = IF atask[i] = "publishing"
                  THEN Append(ctfAssets, <<"images.ctfassets.net", ToString(i),
                                            assetPromises[i].fileName>>)
                  ELSE ctfAssets
  /\ UNCHANGED <<assetPromises, postsThrew, payloads, etask>>
  /\ UNCHANGED <<fetchVars, pipeVars, convVars>>

\* the pending request of task i resolves
AssetStepOk(i) ==
  /\ pc = "assets"
  /\ atask[i] \in {"creating", "processing", "publishing"}
  /\ atask' = [atask EXCEPT ![i] = AssetNextState(@)]
  /\ assets' = IF atask[i] = "publishing"
               THEN Append(assets, [assetId |-> i,
                                    fileName |-> assetPromises[i].fileName])
               ELSE assets
  /\ UNCHANGED <<assetPromises, ctfAssets, postsThrew, payloads, etask>>
  /\ UNCHANGED <<fetchVars, pipeVars, convVars>>

\* variant: the task has no .catch, its rejection rejects the Promise.all
AssetStepFailRejects(i) ==
  /\ pc = "assets"
  /\ atask[i] \in {"creating", "processing", "publishing"}
  /\ atask' = [atask EXCEPT ![i] = "failed"]
  /\ pc' = "crashed"
  /\ UNCHANGED <<assetPromises, assets, ctfAssets, postsThrew, payloads, etask>>
  /\ UNCHANGED <<config, srcPosts, exitCode, exitReason, netUsed,
                 apiData, wpPosts, mapThrew, snapshot>>
  /\ UNCHANGED <<fetchVars, convVars>>

\* the pending request of task i rejects: .catch(...) resolve(null)
AssetStepFail(i) ==
  /\ pc = "assets"
  /\ atask[i] \in {"creating", "processing", "publishing"}
  /\ atask' = [atask EXCEPT ![i] = "failed"]
  /\ UNCHANGED <<assetPromises, assets, ctfAssets, postsThrew, payloads, etask>>
  /\ UNCHANGED <<fetchVars, pipeVars, convVars>>

\* variant: the listing is requested without waiting for the asset tasks
AssetsSettledEarly ==
  /\ pc = "assets"
  /\ pc' = "requery"
  /\ UNCHANGED <<config, srcPosts, exitCode, exitReason, netUsed,
                 apiData, wpPosts, mapThrew, snapshot>>
  /\ UNCHANGED <<fetchVars, pubVars, convVars>>

\* Promise.all resolves: getAndStoreAssets requests the published assets
AssetsSettled ==
  /\ pc = "assets"
  /\ Settled(atask)
  /\ pc' = "requery"
  /\ UNCHANGED <<config, srcPosts, exitCode, exitReason, netUsed,
                 apiData, wpPosts, mapThrew, snapshot>>
  /\ UNCHANGED <<fetchVars, pubVars, convVars>>

(***************************************************************************)
(* convertToRichText, from the markdown on.  A text is a sequence of       *)
(* characters; an inline image of the markdown is one element of it.       *)
(***************************************************************************)
\* the characters String.prototype.trim removes
IsSpace(c) == c \in {" ", "\n"}

\* text.split(sep)
RECURSIVE Split(_, _)
Split(text, sep) ==
  IF \A n \in 1..Len(text) : text[n] # sep THEN <<text>>
  ELSE LET k == CHOOSE n \in 1..Len(text) :
                  text[n] = sep /\ \A m \in 1..(n - 1) : text[m] # sep
       IN  <<SubSeq(text, 1, k - 1)>> \o Split(SubSeq(text, k + 1, Len(text)), sep)

RECURSIVE TrimStart(_)
TrimStart(line) ==
  IF Len(line) > 0 /\ IsSpace(Head(line)) THEN TrimStart(Tail(line)) ELSE line

RECURSIVE TrimEnd(_)
TrimEnd(line) ==
  IF Len(line) > 0 /\ IsSpace(line[Len(line)])
  THEN TrimEnd(SubSeq(line, 1, Len(line) - 1)) ELSE line

\* variant: the line is classified as it stands
TrimNothing(line) == line

\* line.trim()
Trim(line) == TrimEnd(TrimStart(line))

StartsWith(line, prefix) ==
  Len(line) >= Len(prefix) /\ SubSeq(line, 1, Len(prefix)) = prefix

Substring(line, start) == SubSeq(line, start + 1, Len(line))

TextNode(value) == [nodeType |-> "text", value |-> value]

BlockNode(type, content) == [nodeType |-> type, content |-> content]

\* the body of the loop over the lines
LineNode(line) ==
  LET trimmedLine == Trim(line)
  IN  IF StartsWith(trimmedLine, <<"#", " ">>)
      THEN BlockNode("heading-1", <<TextNode(Substring(trimmedLine, 2))>>)
      ELSE IF StartsWith(trimmedLine, <<"#", "#", " ">>)
      THEN BlockNode("heading-2", <<TextNode(Substring(trimmedLine, 3))>>)
      ELSE IF StartsWith(trimmedLine, <<"#", "#", "#", " ">>)
      THEN BlockNode("heading-3", <<TextNode(Substring(trimmedLine, 4))>>)
      ELSE IF StartsWith(trimmedLine, <<">", " ">>)
      THEN BlockNode("blockquote",
             <<BlockNode("paragraph", <<TextNode(Substring(trimmedLine, 2))>>)>>)
      ELSE BlockNode("paragraph", <<TextNode(trimmedLine)>>)

NoDocument == [nodeType |-> "none", content |-> <<>>]

\* markdown.split('\n').filter(line => line.trim().length > 0), the loop,
\* and the document returned
MarkdownToDocument(text) ==
  LET lines == SelectSeq(Split(text, "\n"), LAMBDA line : Len(Trim(line)) > 0)
  IN  BlockNode("document", [n \in 1..Len(lines) |-> LineNode(lines[n])])

\* the conversion of one markdown text
ConvertMarkdown ==
  /\ document = NoDocument
  /\ document' = MarkdownToDocument(markdown)
  /\ UNCHANGED <<markdown, fetchVars, pipeVars, pubVars>>

(***************************************************************************)
(* createContentfulPosts: the entry payloads.                              *)
(***************************************************************************)
RECURSIVE Join(_, _)
Join(list, sep) ==
  IF Len(list) = 0 THEN ""
  ELSE IF Len(list) = 1 THEN list[1]
  ELSE list[1] \o sep \o Join(Tail(list), sep)

AssetUrl(assetId, fileName) == <<"images.ctfassets.net", ToString(assetId), fileName>>

\* `![${alt}](${assetUrl})`, one element of the markdown text
ImageMarkdown(alt, target) == "![" \o alt \o "](" \o target \o ")"

\* the replaceWordPressImages rule: the first asset URL with the file name of
\* the image, or undefined, put into the template literal
RewriteImage(urls, tag) ==
  LET assetUrl == SelectSeq(urls, LAMBDA asset : FileName(asset) = FileName(tag.src))
  IN  <<ImageMarkdown(tag.alt, IF Len(assetUrl) > 0 THEN Join(assetUrl[1], "/")
                               ELSE "undefined")>>

\* turndownService.turndown of a body whose blocks hold one image each: the
\* markdown of the blocks, a blank line between two of them
RECURSIVE turndown(_, _)
turndown(urls, html) ==
  IF Len(html) = 0 THEN <<>>
  ELSE IF Len(html) = 1 THEN RewriteImage(urls, html[1])
  ELSE RewriteImage(urls, html[1]) \o <<"\n", "\n">> \o turndown(urls, Tail(html))

\* htmlContent.replace(/!\[.*?\]\(undefined\)/g, ''): removes text of the
\* HTML that reads ![...](undefined); an <img> element is no such text
StripUndefined(htmlContent) ==
  SelectSeq(htmlContent, LAMBDA node : "src" \in DOMAIN node)

convertToRichText(urls, htmlContent) ==
  MarkdownToDocument(turndown(urls, StripUndefined(htmlContent)))

ConvertContent(urls, body) ==
  IF config.contentFormat = "richtext"
  THEN convertToRichText(urls, body)
  ELSE turndown(urls, body)

PostKeys == <<"id", "type", "postTitle", "slug", "content", "publishDate",
              "featuredImage", "tags", "categories", "contentImages">>

\* variant: contentImages is not skipped
keysToSkipTwo == {"id", "type"}

keysToSkip == {"id", "type", "contentImages"}

\* variant: the link is typed as a link to an entry
AssetLinkToEntry(id) == [sys |-> [type |-> "Link", linkType |-> "Entry", id |-> id]]

AssetLink(id) == [sys |-> [type |-> "Link", linkType |-> "Asset", id |-> id]]

\* variant: the last matching record of the collector is taken
FeaturedAssetLast(post, coll) ==
  IF Len(coll) > 0 /\ Len(post.contentImages) = 0
  THEN [threw |-> TRUE, found |-> <<>>]
  ELSE LET assetObj ==
             SelectSeq(coll, LAMBDA asset :
                         asset.fileName = FileName(post.contentImages[1].link))
       IN  IF Len(assetObj) = 0
           THEN [threw |-> TRUE, found |-> <<>>]
           ELSE [threw |-> FALSE, found |-> <<assetObj[Len(assetObj)]>>]

\* assets.filter(asset => asset.fileName === post.contentImages[0].link...)[0];
\* reading .link of a missing first image, or .assetId of no match, throws
FeaturedAsset(post, coll) ==
  IF Len(coll) > 0 /\ Len(post.contentImages) = 0
  THEN [threw |-> TRUE, found |-> <<>>]
  ELSE LET assetObj ==
             SelectSeq(coll, LAMBDA asset :
                         asset.fileName = FileName(post.contentImages[1].link))
       IN  IF Len(assetObj) = 0
           THEN [threw |-> TRUE, found |-> <<>>]
           ELSE [threw |-> FALSE, found |-> <<assetObj[1]>>]

\* variant: a featuredImage of 0 is left in the payload
SetFieldKeepZero(st, post, coll, urls, postKey) ==
  LET postValue ==
        IF postKey = "content" THEN ConvertContent(urls, post.content)
        ELSE IF postKey \in {"tags", "categories"} THEN Join(post[postKey], ", ")
        ELSE post[postKey]
      kept == IF postKey \in keysToSkip THEN st.fields
              ELSE [k \in DOMAIN st.fields \cup {postKey} |->
                      IF k = postKey THEN [enUS |-> postValue] ELSE st.fields[k]]
  IN  IF st.threw THEN st
      ELSE IF postKey = "featuredImage" /\ postValue > 0
      THEN LET assetObj == FeaturedAsset(post, coll)
           IN  IF assetObj.threw THEN [threw |-> TRUE, fields |-> kept]
               ELSE [threw |-> FALSE,
                     fields |-> [kept EXCEPT !["featuredImage"] =
                                   [enUS |-> AssetLink(assetObj.found[1].assetId)]]]
      ELSE [threw |-> FALSE, fields |-> kept]

\* the body of the loop over Object.entries(post), for one key
SetField(st, post, coll, urls, postKey) ==
  LET postValue ==
        IF postKey = "content" THEN ConvertContent(urls, post.content)
        ELSE IF postKey \in {"tags", "categories"} THEN Join(post[postKey], ", ")
        ELSE post[postKey]
      kept == IF postKey \in keysToSkip THEN st.fields
              ELSE [k \in DOMAIN st.fields \cup {postKey} |->
                      IF k = postKey THEN [enUS |-> postValue] ELSE st.fields[k]]
  IN  IF st.threw THEN st
      ELSE IF postKey = "featuredImage" /\ postValue > 0
      THEN LET assetObj == FeaturedAsset(post, coll)
           IN  IF assetObj.threw THEN [threw |-> TRUE, fields |-> kept]
               ELSE [threw |-> FALSE,
                     fields |-> [kept EXCEPT !["featuredImage"] =
                                   [enUS |-> AssetLink(assetObj.found[1].assetId)]]]
      ELSE IF postKey = "featuredImage" /\ postValue = 0
      THEN [threw |-> FALSE,
            fields |-> [k \in DOMAIN kept \ {"featuredImage"} |-> kept[k]]]
      ELSE [threw |-> FALSE, fields |-> kept]

RECURSIVE BuildFields(_, _, _, _, _)
BuildFields(st, post, coll, urls, keys) ==
  IF Len(keys) = 0 THEN st
  ELSE BuildFields(SetField(st, post, coll, urls, Head(keys)),
                   post, coll, urls, Tail(keys))

NoFields == [k \in {} |-> 0]

postFields(post, coll, urls) ==
  BuildFields([threw |-> FALSE, fields |-> NoFields], post, coll, urls, PostKeys)

\* the listing of the published assets, oldest first or newest first
Reverse(seq) == [i \in 1..Len(seq) |-> seq[Len(seq) + 1 - i]]

PublishedById ==
  LET ids == {i \in 1..Len(atask) : atask[i] = "published"}
      Nth(n) == CHOOSE i \in ids : Cardinality({j \in ids : j < i}) = n - 1
  IN  [n \in 1..Cardinality(ids) |-> AssetUrl(Nth(n), assetPromises[Nth(n)].fileName)]

\* variant: a post whose payload cannot be built is left out and the entry
\* tasks of the other posts are scheduled
RequeryOkSkipsThrowing ==
  /\ pc = "requery"
  /\ \E listing \in {PublishedById, Reverse(PublishedById)} :
       LET built == [i \in 1..Len(wpPosts) |-> postFields(wpPosts[i], assets, listing)]
           good  == SelectSeq(built, LAMBDA b : ~b.threw)
       IN  /\ ctfAssets' = listing
           /\ postsThrew' = \E i \in 1..Len(built) : built[i].threw
           /\ payloads' = [i \in 1..Len(good) |-> good[i].fields]
           /\ etask' = [i \in 1..Len(good) |-> "timer"]
           /\ pc' = "entries"
  /\ UNCHANGED <<assetPromises, atask, assets>>
  /\ UNCHANGED <<config, srcPosts, exitCode, exitReason, netUsed,
                 apiData, wpPosts, mapThrew, snapshot>>
  /\ UNCHANGED <<fetchVars, convVars>>

\* the listing arrives: contentfulData.assets is filled and
\* createContentfulPosts builds the payloads and schedules the entry tasks;
\* an exception of createContentfulPosts reaches the .catch of the request,
\* whose `return error` raises a ReferenceError that nothing handles
RequeryOk ==
  /\ pc = "requery"
  /\ \E listing \in {PublishedById, Reverse(PublishedById)} :
       LET built == [i \in 1..Len(wpPosts) |-> postFields(wpPosts[i], assets, listing)]
       IN  /\ ctfAssets' = listing
           /\ IF \E i \in 1..Len(built) : built[i].threw
              THEN /\ postsThrew' = TRUE
                   /\ pc' = "crashed"
                   /\ UNCHANGED <<payloads, etask>>
              ELSE /\ payloads' = [i \in 1..Len(built) |-> built[i].fields]
                   /\ etask' = [i \in 1..Len(built) |-> "timer"]
                   /\ pc' = "entries"
                   /\ UNCHANGED postsThrew
  /\ UNCHANGED <<assetPromises, atask, assets>>
  /\ UNCHANGED <<config, srcPosts, exitCode, exitReason, netUsed,
                 apiData, wpPosts, mapThrew, snapshot>>
  /\ UNCHANGED <<fetchVars, convVars>>

\* variant: the .catch goes on to createContentfulPosts without a listing
RequeryFailGoesOn ==
  /\ pc = "requery"
  /\ LET built == [i \in 1..Len(wpPosts) |-> postFields(wpPosts[i], assets, <<>>)]
     IN  IF \E i \in 1..Len(built) : built[i].threw
         THEN /\ postsThrew' = TRUE
              /\ pc' = "crashed"
              /\ UNCHANGED <<payloads, etask>>
         ELSE /\ payloads' = [i \in 1..Len(built) |-> built[i].fields]
              /\ etask' = [i \in 1..Len(built) |-> "timer"]
              /\ pc' = "entries"
              /\ UNCHANGED postsThrew
  /\ UNCHANGED <<assetPromises, atask, assets, ctfAssets>>
  /\ UNCHANGED <<config, srcPosts, exitCode, exitReason, netUsed,
                 apiData, wpPosts, mapThrew, snapshot>>
  /\ UNCHANGED <<fetchVars, convVars>>

\* the listing request rejects: the same .catch, the same ReferenceError
RequeryFail ==
  /\ pc = "requery"
  /\ pc' = "crashed"
  /\ UNCHANGED <<config, srcPosts, exitCode, exitReason, netUsed,
                 apiData, wpPosts, mapThrew, snapshot>>
  /\ UNCHANGED <<fetchVars, pubVars, convVars>>

\* an unhandled rejection ends the process with code 1, or is only warned
\* about and the process ends with code 0, depending on the runtime
UnhandledRejection ==
  /\ pc = "crashed"
  /\ \E code \in {0, 1} : Exit(code, "unhandled rejection")
  /\ UNCHANGED <<config, srcPosts, netUsed, apiData, wpPosts, mapThrew, snapshot>>
  /\ UNCHANGED <<fetchVars, pubVars, convVars>>

(***************************************************************************)
(* createContentfulEntries: the task of payload i.                         *)
(*   "timer" -> "creating" -> "publishing" -> "published", or "failed".    *)
(***************************************************************************)
EntryTimer(i) ==
  /\ pc = "entries"
  /\ TimerFires(etask, i)
  /\ etask' = [etask EXCEPT ![i] = "creating"]
  /\ UNCHANGED <<assetPromises, atask, assets, ctfAssets, postsThrew, payloads>>
  /\ UNCHANGED <<fetchVars, pipeVars, convVars>>

EntryStepOk(i) ==
  /\ pc = "entries"
  /\ etask[i] \in {"creating", "publishing"}
  /\ etask' = [etask EXCEPT ![i] = IF @ = "creating" THEN "publishing"
                                   ELSE "published"]
  /\ UNCHANGED <<assetPromises, atask, assets, ctfAssets, postsThrew, payloads>>
  /\ UNCHANGED <<fetchVars, pipeVars, convVars>>

\* variant: the task has no .catch, its rejection rejects the Promise.all
EntryStepFailRejects(i) ==
  /\ pc = "entries"
  /\ etask[i] \in {"creating", "publishing"}
  /\ etask' = [etask EXCEPT ![i] = "failed"]
  /\ pc' = "crashed"
  /\ UNCHANGED <<assetPromises, atask, assets, ctfAssets, postsThrew, payloads>>
  /\ UNCHANGED <<config, srcPosts, exitCode, exitReason, netUsed,
                 apiData, wpPosts, mapThrew, snapshot>>
  /\ UNCHANGED <<fetchVars, convVars>>

\* variant: the .catch schedules the task again
EntryStepFailRetries(i) ==
  /\ pc = "entries"
  /\ etask[i] \in {"creating", "publishing"}
  /\ etask' = [etask EXCEPT ![i] = "timer"]
  /\ UNCHANGED <<assetPromises, atask, assets, ctfAssets, postsThrew, payloads>>
  /\ UNCHANGED <<fetchVars, pipeVars, convVars>>

\* the pending request of task i rejects: .catch(...) resolve(null)
EntryStepFail(i) ==
  /\ pc = "entries"
  /\ etask[i] \in {"creating", "publishing"}
  /\ etask' = [etask EXCEPT ![i] = "failed"]
  /\ UNCHANGED <<assetPromises, atask, assets, ctfAssets, postsThrew, payloads>>
  /\ UNCHANGED <<fetchVars, pipeVars, convVars>>

\* Promise.all of the entry tasks resolves: the summary is logged
Summary ==
  /\ pc = "entries"
  /\ Settled(etask)
  /\ pc' = "done"
  /\ UNCHANGED <<config, srcPosts, exitCode, exitReason, netUsed,
                 apiData, wpPosts, mapThrew, snapshot>>
  /\ UNCHANGED <<fetchVars, pubVars, convVars>>

\* nothing is pending any more: the process ends
ProcessEnd ==
  /\ pc = "done"
  /\ snapshot.status # "pending"
  /\ Exit(0, "completed")
  /\ UNCHANGED <<config, srcPosts, netUsed, apiData, wpPosts, mapThrew, snapshot>>
  /\ UNCHANGED <<fetchVars, pubVars, convVars>>

PipeInitCommon ==
  /\ pc = "load"
  /\ exitCode = -1
  /\ exitReason = ""
  /\ netUsed = FALSE
  /\ apiData = <<>>
  /\ wpPosts = <<>>
  /\ mapThrew = FALSE
  /\ snapshot = NoSnapshot
  /\ assetPromises = <<>>
  /\ atask = <<>>
  /\ assets = <<>>
  /\ ctfAssets = <<>>
  /\ postsThrew = FALSE
  /\ payloads = <<>>
  /\ etask = <<>>

ConvInitNone ==
  /\ markdown = <<>>
  /\ document = NoDocument

\* the state at the start of a run, the site apart
InitRun ==
  /\ config \in [hasCredentials : BOOLEAN, tokenFormatOk : BOOLEAN,
                 contentFormat : {"richtext", "markdown"}]
  /\ \E nm \in {0, NumMedia} :
       srcCount = [k \in Kinds |->
                     IF k = "posts" THEN Len(srcPosts)
                     ELSE IF k = "tags" THEN NumTags
                     ELSE IF k = "categories" THEN NumCategories ELSE nm]
  /\ srcTotal = TRUE
  /\ cap = [k \in Kinds |->
              IF k = "posts" THEN importPostCount
              ELSE IF k = "media" THEN maxItemsMedia ELSE maxItemsLabels]
  /\ fstate = [k \in Kinds |-> "idle"]
  /\ allData = [k \in Kinds |-> <<>>]
  /\ page = [k \in Kinds |-> 1]
  /\ hasMorePages = [k \in Kinds |-> TRUE]
  /\ requests = [k \in Kinds |-> <<>>]
  /\ pageFailed = [k \in Kinds |-> FALSE]
  /\ result = [k \in Kinds |-> NoResult]
  /\ PipeInitCommon
  /\ ConvInitNone

Init ==
  /\ srcPosts \in Sites
  /\ InitRun

AbsentInit ==
  /\ srcPosts \in AbsentSites
  /\ InitRun

(***************************************************************************)
(* The fetcher on its own: one call, fetchDataWithPagination(posts, M),    *)
(* against a source of N items.                                            *)
(***************************************************************************)
FetchInit ==
  /\ \E n \in 0..MaxN :
       srcCount = [k \in Kinds |-> IF k = "posts" THEN n ELSE 0]
  /\ srcTotal \in BOOLEAN
  /\ \E m \in 1..MaxM :
       cap = [k \in Kinds |-> IF k = "posts" THEN m ELSE 1]
  /\ fstate = [k \in Kinds |-> IF k = "posts" THEN "running" ELSE "idle"]
  /\ allData = [k \in Kinds |-> <<>>]
  /\ page = [k \in Kinds |-> 1]
  /\ hasMorePages = [k \in Kinds |-> TRUE]
  /\ requests = [k \in Kinds |-> <<>>]
  /\ pageFailed = [k \in Kinds |-> FALSE]
  /\ result = [k \in Kinds |-> NoResult]
  /\ config = [hasCredentials |-> TRUE, tokenFormatOk |-> TRUE,
               contentFormat |-> "richtext"]
  /\ srcPosts = <<>>
  /\ PipeInitCommon
  /\ ConvInitNone

PageOk == \E k \in Kinds : FetchPageOk(k)
PageFail == \E k \in Kinds : FetchPageFail(k)

FetchNext == PageOk \/ PageFail

FetchSpec == FetchInit /\ [][FetchNext]_vars

(***************************************************************************)
(* The fetcher against any source: a page is answered with any number of   *)
(* items, whatever was asked, or fails; the total header, when sent, holds *)
(* any value.                                                              *)
(***************************************************************************)
FetchPageAny(k) ==
  /\ fstate[k] = "running"
  /\ requests' = [requests EXCEPT
                    ![k] = Append(@, [page |-> page[k],
                                      per_page |-> itemsToFetch(k),
                                      have |-> Len(allData[k]),
                                      ok |-> TRUE])]
  /\ \E n \in 0..MaxPageItems : PageResponse(k, [i \in 1..n |-> i])
  /\ UNCHANGED <<srcCount, srcTotal, cap, pageFailed>>
  /\ UNCHANGED <<pipeVars, pubVars, convVars>>

AnySourceInit ==
  /\ \E n \in 0..MaxAnyCap :
       srcCount = [k \in Kinds |-> IF k = "posts" THEN n ELSE 0]
  /\ srcTotal \in BOOLEAN
  /\ \E m \in 1..MaxAnyCap :
       cap = [k \in Kinds |-> IF k = "posts" THEN m ELSE 1]
  /\ fstate = [k \in Kinds |-> IF k = "posts" THEN "running" ELSE "idle"]
  /\ allData = [k \in Kinds |-> <<>>]
  /\ page = [k \in Kinds |-> 1]
  /\ hasMorePages = [k \in Kinds |-> TRUE]
  /\ requests = [k \in Kinds |-> <<>>]
  /\ pageFailed = [k \in Kinds |-> FALSE]
  /\ result = [k \in Kinds |-> NoResult]
  /\ config = [hasCredentials |-> TRUE, tokenFormatOk |-> TRUE,
               contentFormat |-> "richtext"]
  /\ srcPosts = <<>>
  /\ PipeInitCommon
  /\ ConvInitNone

PageAny == \E k \in Kinds : FetchPageAny(k)

AnySourceNext == PageAny \/ PageFail

AnySourceSpec == AnySourceInit /\ [][AnySourceNext]_vars

(***************************************************************************)
(* The line classification on its own: one markdown text of at most        *)
(* MaxMdLen characters.                                                    *)
(***************************************************************************)
Chars == {"#", ">", " ", "a", "\n"}

Texts == UNION {[1..n -> Chars] : n \in 0..MaxMdLen}

ConvInit ==
  /\ markdown \in Texts
  /\ document = NoDocument
  /\ srcCount = [k \in Kinds |-> 0]
  /\ srcTotal = TRUE
  /\ cap = [k \in Kinds |-> 1]
  /\ fstate = [k \in Kinds |-> "idle"]
  /\ allData = [k \in Kinds |-> <<>>]
  /\ page = [k \in Kinds |-> 1]
  /\ hasMorePages = [k \in Kinds |-> TRUE]
  /\ requests = [k \in Kinds |-> <<>>]
  /\ pageFailed = [k \in Kinds |-> FALSE]
  /\ result = [k \in Kinds |-> NoResult]
  /\ config = [hasCredentials |-> TRUE, tokenFormatOk |-> TRUE,
               contentFormat |-> "richtext"]
  /\ srcPosts = <<>>
  /\ PipeInitCommon

ConvNext == ConvertMarkdown

ConvSpec == ConvInit /\ [][ConvNext]_vars

AssetCreate == \E i \in 1..Len(atask) : AssetTimer(i)
AssetOk == \E i \in 1..Len(atask) : AssetStepOk(i)
AssetFail == \E i \in 1..Len(atask) : AssetStepFail(i)
EntryCreate == \E i \in 1..Len(etask) : EntryTimer(i)
EntryOk == \E i \in 1..Len(etask) : EntryStepOk(i)
EntryFail == \E i \in 1..Len(etask) : EntryStepFail(i)

Next ==
  \/ LoadConfig
  \/ TestConnectionOk
  \/ TestConnectionFail
  \/ StartFetches
  \/ PageOk
  \/ PageFail
  \/ MapData
  \/ WriteFileDone
  \/ CtfConnectOk
  \/ CtfConnectFail
  \/ ContentTypeFound
  \/ ContentTypeMissing
  \/ ContentTypesError
  \/ AssetCreate
  \/ AssetOk
  \/ AssetFail
  \/ AssetsSettled
  \/ RequeryOk
  \/ RequeryFail
  \/ UnhandledRejection
  \/ EntryCreate
  \/ EntryOk
  \/ EntryFail
  \/ Summary
  \/ ProcessEnd

Spec == Init /\ [][Next]_vars

\* the runs against a site with posts that have no featured_media
AbsentSpec == AbsentInit /\ [][Next]_vars

(***************************************************************************)
(* Properties of the paginated fetcher (checked under FetchSpec).          *)
(***************************************************************************)
Returned(k) == fstate[k] = "returned"

\* C1: for a source of N >= 1 items that sends the total header, never fails
\* and honours per_page and page, a fetch with a cap M > N issues exactly
\* ceil(N/100) page requests and returns exactly N items.
C1_AllItemsWhenCapAboveTotal ==
  \A k \in Kinds :
    (Returned(k) /\ srcTotal /\ ~pageFailed[k]
       /\ srcCount[k] >= 1 /\ cap[k] > srcCount[k])
    => /\ Len(requests[k]) = CeilDiv(srcCount[k], maxPerPage)
       /\ Len(result[k].data) = srcCount[k]

\* C2: for a source of N items that honours per_page and page, a fetch with
\* a cap M < N returns exactly M items; every page request asks for
\* per_page = min(100, M - items held), so the last page asks for fewer than
\* 100 items when the remainder is below 100, and never more than M items
\* are held.
C2_ExactlyCapWhenCapBelowTotal ==
  \A k \in Kinds :
    (cap[k] < srcCount[k] /\ ~pageFailed[k])
    => /\ Len(allData[k]) <= cap[k]
       /\ \A r \in 1..Len(requests[k]) :
            requests[k][r].per_page
              = Min(maxPerPage, cap[k] - requests[k][r].have)
       /\ Returned(k) =>
            /\ Len(result[k].data) = cap[k]
            /\ LET last == requests[k][Len(requests[k])]
               IN  cap[k] - last.have < maxPerPage
                     => /\ last.per_page = cap[k] - last.have
                        /\ last.per_page < maxPerPage

\* a capped fetch of two pages whose last page asked for fewer than 100 items
C2_Witness ==
  /\ Returned("posts")
  /\ cap["posts"] < srcCount["posts"]
  /\ ~pageFailed["posts"]
  /\ Len(requests["posts"]) = 2
  /\ requests["posts"][2].per_page < maxPerPage
  /\ Len(result["posts"].data) = cap["posts"]

\* C3: when a page request fails no further page is requested, the function
\* returns (it does not throw) the items held before the failure, with
\* success = (items held > 0) and a non-null error exactly when no item is
\* held.
C3_PageFailureStopsPagination ==
  \A k \in Kinds :
    pageFailed[k]
    => /\ Returned(k)
       /\ \A r \in 1..Len(requests[k]) :
            ~requests[k][r].ok => r = Len(requests[k])
       /\ result[k].data = allData[k]
       /\ Len(result[k].data) = requests[k][Len(requests[k])].have
       /\ result[k].success = (Len(result[k].data) > 0)
       /\ (result[k].error # "null") = (Len(result[k].data) = 0)

\* the second page request failed after a first page of 100 items
C3_Witness ==
  /\ pageFailed["posts"]
  /\ Returned("posts")
  /\ Len(requests["posts"]) = 2
  /\ result["posts"].success
  /\ Len(result["posts"].data) = maxPerPage

(***************************************************************************)
(* Properties of the run (checked under Spec).                             *)
(***************************************************************************)
\* mapData has run
Mapped == apiData # <<>>

\* the raw post behind the i-th fetched post
FetchedPost(i) == srcPosts[result["posts"].data[i]]

NoPublishRequest ==
  /\ \A i \in 1..Len(atask) : atask[i] = "timer"
  /\ \A i \in 1..Len(etask) : etask[i] = "timer"

\* C4: when the posts fetch completes with an empty collection, the run ends
\* with exit code 0 and an explanatory message, and no asset or entry is
\* created.
C4_NoPostsIsCleanExit ==
  (Mapped /\ srcCount["posts"] = 0 /\ ~pageFailed["posts"])
  => /\ pc = "exited"
     /\ exitCode = 0
     /\ exitReason = "no posts found to migrate"
     /\ NoPublishRequest

\* C5: when the destination connectivity check fails, the target content
\* type is absent, or the posts fetch yields no usable post data, the
\* process ends with a non-zero exit code and no createAsset or createEntry
\* request is ever issued.
C5_FatalConditionsExitNonZero ==
  /\ exitReason \in {"connection test failed", "error connecting to Contentful",
                     "content type not found"}
       => pc = "exited" /\ exitCode > 0 /\ NoPublishRequest
  /\ (Mapped /\ ~result["posts"].success)
       => pc = "exited" /\ exitCode > 0 /\ NoPublishRequest

\* the content type is missing although two posts with images were normalized
C5_Witness ==
  /\ exitReason = "content type not found"
  /\ exitCode = 1
  /\ Len(wpPosts) = 2
  /\ \E i \in 1..Len(wpPosts) : Len(wpPosts[i].contentImages) > 0
  /\ atask = <<>>

\* C6: every configuration error (missing credentials, malformed access
\* token, target content type absent) ends the process before any network
\* request has been issued.
C6_ConfigErrorsBeforeNetwork ==
  exitReason \in {"missing configuration", "invalid token format",
                  "content type not found"}
  => pc = "exited" /\ ~netUsed

\* C6 as amended: missing credentials and a malformed token end the process
\* before any network request; an absent content type ends it after the
\* connectivity checks and the fetches, before any publish request.
C6_ConfigErrorsAmended ==
  /\ exitReason \in {"missing configuration", "invalid token format"}
       => pc = "exited" /\ exitCode = 1 /\ ~netUsed
  /\ exitReason = "content type not found"
       => /\ pc = "exited" /\ exitCode = 1 /\ netUsed
          /\ \A k \in Kinds : Returned(k)
          /\ NoPublishRequest

\* the token is malformed: the process has ended without a request
C6_Witness ==
  /\ config.hasCredentials
  /\ ~config.tokenFormatOk
  /\ pc = "exited"
  /\ exitReason = "invalid token format"
  /\ ~netUsed

AuxKinds == {"tags", "categories", "media"}

\* C7: if the fetch of one auxiliary collection fails while the posts fetch
\* succeeds, normalization does not throw, every fetched post is normalized
\* (the affected reference omitted) and the run goes on to publishing.
C7_AuxiliaryFailureTolerated ==
  (Mapped /\ result["posts"].success
     /\ \E k \in AuxKinds :
          /\ pageFailed[k]
          /\ \A o \in AuxKinds \ {k} : ~pageFailed[o] /\ result[o].success)
  => /\ ~mapThrew
     /\ exitReason # "error fetching WordPress data"
     /\ Len(wpPosts) = Len(result["posts"].data)
     /\ \A i \in 1..Len(wpPosts) :
          /\ pageFailed["tags"] => wpPosts[i].tags = <<>>
          /\ pageFailed["categories"] => wpPosts[i].categories = <<>>
          /\ pageFailed["media"] =>
               \A n \in 1..Len(wpPosts[i].contentImages) :
                 ~wpPosts[i].contentImages[n].featured

\* C8: a post whose featured-media ID is > 0 and matches no record of the
\* fetched media collection is still normalized, without exception, with no
\* featured image reference and its body images unchanged.
C8_UnresolvedFeaturedTolerated ==
  (Mapped /\ result["posts"].success /\ ~pageFailed["media"])
  => \A i \in 1..Len(result["posts"].data) :
       (/\ FetchedPost(i).featured_media > 0
        /\ \A n \in 1..Len(result["media"].data) :
             result["media"].data[n] # FetchedPost(i).featured_media)
       => /\ ~mapThrew
          /\ Len(wpPosts) = Len(result["posts"].data)
          /\ Len(wpPosts[i].contentImages) = Len(FetchedPost(i).content)
          /\ \A n \in 1..Len(wpPosts[i].contentImages) :
               /\ ~wpPosts[i].contentImages[n].featured
               /\ wpPosts[i].contentImages[n].link = FetchedPost(i).content[n].src

\* C9: the payload of a post whose featured-media ID is 0 has no
\* featuredImage field, whatever its body images and the uploaded assets.
C9_NoFeaturedImageFieldForZero ==
  \A i \in 1..Len(payloads) :
    FetchedPost(i).featured_media = 0 => "featuredImage" \notin DOMAIN payloads[i]

\* a payload was built for a post without featured image whose body image
\* was uploaded
C9_Witness ==
  \E i \in 1..Len(payloads) :
    /\ FetchedPost(i).featured_media = 0
    /\ Len(wpPosts[i].contentImages) > 0
    /\ Len(assets) > 0
    /\ "featuredImage" \notin DOMAIN payloads[i]
    /\ "content" \in DOMAIN payloads[i]

RECURSIVE ImagesBefore(_)
ImagesBefore(i) ==
  IF i <= 1 THEN 0 ELSE ImagesBefore(i - 1) + Len(wpPosts[i - 1].contentImages)

\* the index, among the asset objects, of the first image of post i
FirstAssetOf(i) == 1 + ImagesBefore(i)

\* C10: if exactly one asset upload out of several fails, the collector
\* holds a record for every other asset, the entry stage runs for all posts,
\* and the featuredImage link is missing only from the entries of posts
\* whose featured image was the failed asset (stated for runs in which the
\* featured media of every post resolved).
C10_AssetFailureIsolated ==
  (/\ pc \in {"crashed", "entries", "done"}
   /\ ctfAssets # <<>> \/ postsThrew \/ Len(payloads) > 0
   /\ Len(atask) >= 2
   /\ Cardinality({j \in 1..Len(atask) : atask[j] = "failed"}) = 1
   /\ \A i \in 1..Len(wpPosts) :
        wpPosts[i].featuredImage > 0
          => Len(wpPosts[i].contentImages) > 0 /\ wpPosts[i].contentImages[1].featured)
  => /\ \A j \in 1..Len(atask) :
          atask[j] = "published" => \E n \in 1..Len(assets) : assets[n].assetId = j
     /\ ~postsThrew
     /\ Len(payloads) = Len(wpPosts)
     /\ \A i \in 1..Len(payloads) :
          (/\ Len(wpPosts[i].contentImages) > 0
           /\ wpPosts[i].contentImages[1].featured
           /\ atask[FirstAssetOf(i)] = "published")
          => "featuredImage" \in DOMAIN payloads[i]

(***************************************************************************)
(* C11.  Within the asset stage a failed createAsset, processForAllLocales *)
(* or publish of one item ends that item's task with no asset: its task is *)
(* settled, no record of it is in the collector, and it holds up nothing:  *)
(* every published sibling is recorded, every pending sibling request can  *)
(* still resolve, the next timer can still fire, and once every task is    *)
(* settled the stage's Promise.all resolves.                               *)
(***************************************************************************)
Recorded(i) == \E n \in 1..Len(assets) : assets[n].assetId = i

C11_AssetFailureContained ==
  \A i \in 1..Len(atask) :
    /\ atask[i] = "failed" => ~Recorded(i)
    /\ atask[i] = "published" => Recorded(i)
    /\ atask[i] \in {"creating", "processing", "publishing"}
         => ENABLED AssetStepOk(i)
    /\ TimerFires(atask, i) => ENABLED AssetTimer(i)
    /\ (pc = "assets" /\ Settled(atask)) => ENABLED AssetsSettled

\* the first task failed, its sibling was published and recorded after it,
\* and the stage resolved
C11_Witness ==
  /\ pc = "requery"
  /\ \E i, j \in 1..Len(atask) :
       /\ i < j
       /\ atask[i] = "failed" /\ atask[j] = "published"
       /\ Recorded(j) /\ ~Recorded(i)
       /\ Len(assets) = 1

(***************************************************************************)
(* C12.  Within the entry stage a failed createEntry or publish of one     *)
(* post ends that post's task with no entry and holds up nothing: every    *)
(* pending sibling request can still resolve, the next timer can still     *)
(* fire, and once every task is settled the Promise.all resolves and the   *)
(* summary is logged.                                                      *)
(***************************************************************************)
C12_EntryFailureContained ==
  \A i \in 1..Len(etask) :
    /\ etask[i] \in {"creating", "publishing"} => ENABLED EntryStepOk(i)
    /\ TimerFires(etask, i) => ENABLED EntryTimer(i)
    /\ (pc = "entries" /\ Settled(etask)) => ENABLED Summary
    /\ (pc = "crashed") => \A j \in 1..Len(etask) : etask[j] = "timer"

\* the first post's entry failed, the second was published, the summary
\* was logged
C12_Witness ==
  /\ pc = "done"
  /\ Len(etask) = 2
  /\ etask[1] = "failed"
  /\ etask[2] = "published"

(***************************************************************************)
(* C13.  Once the asset stage has started, whichever asset tasks and entry *)
(* tasks fail, the run completes and logs the final summary: a run that    *)
(* went through the asset stage and got its listing of published assets    *)
(* answered ends as "completed" (the summary was logged), never by an      *)
(* exception nothing handles (stated for runs in which the featured media  *)
(* of every post resolved, so that only task failures are in play).        *)
(***************************************************************************)
FeaturedAllResolved ==
  \A i \in 1..Len(wpPosts) :
    wpPosts[i].featuredImage > 0
      => Len(wpPosts[i].contentImages) > 0 /\ wpPosts[i].contentImages[1].featured

AssetStageStarted ==
  \/ pc \in {"assets", "requery", "entries", "done", "crashed"}
  \/ pc = "exited" /\ exitReason \in {"completed", "unhandled rejection"}

ListingFailed == pc \in {"crashed", "exited"} /\ exitReason # "completed" /\ ~postsThrew

C13_RunCompletesWhateverFails ==
  (AssetStageStarted /\ ~ListingFailed /\ FeaturedAllResolved)
    => /\ pc # "crashed"
       /\ pc = "exited" => exitReason = "completed"

(***************************************************************************)
(* C14.  Stage barrier: whenever an entry payload has been built or an     *)
(* entry task exists (so before any createEntry request), every asset task *)
(* is settled and the list of published asset URLs has been re-queried: it *)
(* is the listing of all the assets that were published.                   *)
(***************************************************************************)
EntryStageEntered ==
  Len(payloads) > 0 \/ Len(etask) > 0 \/ pc \in {"entries", "done"}

C14_StageBarrier ==
  EntryStageEntered
    => /\ Settled(atask)
       /\ ctfAssets \in {PublishedById, Reverse(PublishedById)}
       /\ Len(ctfAssets) = Len(assets)

\* a createEntry request is pending after two asset tasks settled, one of
\* them published and listed
C14_Witness ==
  /\ pc = "entries"
  /\ etask[1] = "creating"
  /\ Len(atask) >= 2
  /\ \E i \in 1..Len(atask) : atask[i] = "failed"
  /\ Len(ctfAssets) = 1

(***************************************************************************)
(* C15.  The stages are entered in the order connectivity checks, fetch    *)
(* (once per kind), normalize, snapshot, publish assets, publish entries,  *)
(* summary, each at most once: no step goes back to an earlier stage, a    *)
(* fetch that returned never runs again, the first post is normalized only *)
(* when all four fetches have returned, the snapshot is started only with  *)
(* the normalized posts, the asset tasks only after it, the entry tasks    *)
(* only after the asset tasks, the summary only from the entry stage.      *)
(* (createForContentful's getSpace/getEnvironment opens the publishing of  *)
(* the assets; it is not counted as the connectivity check stage.)         *)
(***************************************************************************)
\* ranks 3 (normalize) and 4 (snapshot) are the synchronous body of mapData,
\* which ends in rank 5
StageRank(p) ==
  IF p = "load" THEN 0
  ELSE IF p \in {"connTest", "postCount"} THEN 1
  ELSE IF p = "fetching" THEN 2
  ELSE IF p \in {"ctfConnect", "checkTypes", "assets", "requery"} THEN 5
  ELSE IF p = "entries" THEN 6
  ELSE IF p = "done" THEN 7
  ELSE 8

FetchRank(st) == IF st = "idle" THEN 0 ELSE IF st = "running" THEN 1 ELSE 2

StageStep ==
  /\ StageRank(pc') >= StageRank(pc)
  /\ StageRank(pc') \in 0..7 => StageRank(pc') - StageRank(pc) \in {0, 1, 3}
  /\ \A k \in Kinds :
       /\ FetchRank(fstate'[k]) >= FetchRank(fstate[k])
       /\ fstate'[k] # "idle" => pc' # "load" /\ pc' # "connTest" /\ pc' # "postCount"
       /\ fstate[k] = "returned" => requests'[k] = requests[k]
  /\ wpPosts' # wpPosts
       => /\ wpPosts = <<>>
          /\ \A k \in Kinds : fstate[k] = "returned"
          /\ pc = "fetching"
  /\ snapshot' # snapshot
       => \/ /\ snapshot = NoSnapshot
             /\ snapshot'.data = wpPosts' /\ wpPosts' # <<>>
             /\ atask = <<>> /\ pc = "fetching"
          \/ /\ snapshot.status = "pending"
             /\ snapshot' = [snapshot EXCEPT !.status = "settled"]
  /\ atask' # atask /\ atask = <<>> => snapshot # NoSnapshot /\ etask = <<>>
  /\ Len(atask') # Len(atask) => atask = <<>>
  /\ etask' # etask /\ etask = <<>> => Settled(atask) /\ pc = "requery"
  /\ Len(etask') # Len(etask) => etask = <<>>
  /\ pc' = "done" /\ pc # "done" => pc = "entries" /\ Settled(etask)

C15_StagesInOrder == [][StageStep]_vars

\* the summary was reached after all four fetches, the snapshot, two asset
\* tasks and two entry tasks
C15_Witness ==
  /\ pc = "done"
  /\ \A k \in Kinds : fstate[k] = "returned" /\ Len(requests[k]) >= 1
  /\ snapshot.status = "settled"
  /\ Len(atask) = 2
  /\ Len(etask) = 2

(***************************************************************************)
(* C16.  The write of the JSON snapshot has completed (its callback has    *)
(* run) before publishing begins, that is, whenever a createAsset or       *)
(* createEntry request has been issued.                                    *)
(***************************************************************************)
PublishRequestIssued ==
  \/ \E i \in 1..Len(atask) : atask[i] # "timer"
  \/ \E i \in 1..Len(etask) : etask[i] # "timer"

C16_SnapshotWrittenBeforePublishing ==
  PublishRequestIssued => snapshot.status = "settled"

(***************************************************************************)
(* C16, amended.  The write of the snapshot has been started, with the     *)
(* full normalized post collection, before publishing begins: whenever the *)
(* destination has been contacted for publishing (createForContentful and  *)
(* everything after it), fs.writeFile has been called with all normalized  *)
(* posts; its completion is not waited for.                                *)
(***************************************************************************)
C16_SnapshotStartedBeforePublishing ==
  (\/ pc \in {"ctfConnect", "checkTypes", "assets", "requery", "entries", "done"}
   \/ PublishRequestIssued)
    => /\ snapshot.status \in {"pending", "settled"}
       /\ snapshot.data = wpPosts
       /\ Len(snapshot.data) = Len(result["posts"].data)
       /\ Len(snapshot.data) > 0

\* a createAsset request is pending while the callback of the write has not
\* run yet
C16_Witness ==
  /\ pc = "assets"
  /\ \E i \in 1..Len(atask) : atask[i] = "creating"
  /\ snapshot.status = "pending"
  /\ Len(snapshot.data) = MaxPosts

(***************************************************************************)
(* C17.  The label names of a normalized post are its label IDs with every *)
(* ID that the fetched collection resolves replaced by the name, every     *)
(* other ID removed, in the order of the IDs, without placeholder.         *)
(***************************************************************************)
FetchedIds(kind) ==
  IF result[kind].success
  THEN {result[kind].data[n] : n \in 1..Len(result[kind].data)}
  ELSE {}

ExpectedLabels(ids, kind) ==
  LET keep == SelectSeq(ids, LAMBDA id : id \in FetchedIds(kind))
  IN  [n \in 1..Len(keep) |-> LabelName(kind, keep[n])]

C17_LabelsResolvedInOrder ==
  \A i \in 1..Len(wpPosts) :
    /\ wpPosts[i].tags = ExpectedLabels(FetchedPost(i).tags, "tags")
    /\ wpPosts[i].categories = ExpectedLabels(FetchedPost(i).categories, "categories")

\* IDs <<2, unknown, 1>> with 1 -> "Go", 2 -> "Rust" gave <<"Rust", "Go">>
C17_Witness ==
  \E i \in 1..Len(wpPosts) :
    /\ FetchedPost(i).tags = <<2, MissingId, 1>>
    /\ wpPosts[i].tags = <<"Rust", "Go">>
    /\ Len(FetchedPost(i).categories) = Len(wpPosts[i].categories)

(***************************************************************************)
(* C18.  The images of a normalized post are the featured image first,     *)
(* present exactly when the featured media ID is positive and found in the *)
(* fetched media, then one reference per <img> of the body in document     *)
(* order; at most one image is marked featured, and only at position 1.    *)
(***************************************************************************)
FeaturedResolves(p) ==
  p.featured_media > 0 /\ p.featured_media \in FetchedIds("media")

C18_ImagesFeaturedFirst ==
  \A i \in 1..Len(wpPosts) :
    LET p == FetchedPost(i)
        imgs == wpPosts[i].contentImages
        off == IF FeaturedResolves(p) THEN 1 ELSE 0
    IN  /\ Len(imgs) = off + Len(p.content)
        /\ FeaturedResolves(p)
             => /\ imgs[1].featured
                /\ imgs[1].link = MediaRec(p.featured_media).source_url
        /\ \A n \in 1..Len(p.content) :
             /\ ~imgs[off + n].featured
             /\ imgs[off + n].link = p.content[n].src
        /\ \A n \in 1..Len(imgs) : imgs[n].featured => n = 1

\* a post with a resolved featured image and a body image: two references,
\* the featured one first
C18_Witness ==
  \E i \in 1..Len(wpPosts) :
    /\ FeaturedResolves(FetchedPost(i))
    /\ FetchedPost(i).content = <<ImgA>>
    /\ Len(wpPosts[i].contentImages) = 2
    /\ wpPosts[i].contentImages[1].featured
    /\ wpPosts[i].contentImages[2].link = ImgA.src

(***************************************************************************)
(* C19.  The structured conversion yields exactly one node per non-blank   *)
(* markdown line, in line order.  The node is classified by the marker the *)
(* trimmed line starts with: "# " heading-1, "## " heading-2, "### "       *)
(* heading-3, each holding the line without the marker; "> " a blockquote  *)
(* wrapping one paragraph with the rest of the line; any other line a      *)
(* paragraph holding the whole trimmed line.  No node has an empty text.   *)
(***************************************************************************)
\* the line between its first and its last character that is not a space
Trimmed(line) ==
  LET ns == {n \in 1..Len(line) : ~IsSpace(line[n])}
  IN  IF ns = {} THEN <<>>
      ELSE SubSeq(line, CHOOSE a \in ns : \A n \in ns : a <= n,
                        CHOOSE b \in ns : \A n \in ns : b >= n)

Marker(t) ==
  IF Len(t) >= 2 /\ t[1] = "#" /\ t[2] = " "
  THEN [type |-> "heading-1", len |-> 2]
  ELSE IF Len(t) >= 3 /\ t[1] = "#" /\ t[2] = "#" /\ t[3] = " "
  THEN [type |-> "heading-2", len |-> 3]
  ELSE IF Len(t) >= 4 /\ t[1] = "#" /\ t[2] = "#" /\ t[3] = "#" /\ t[4] = " "
  THEN [type |-> "heading-3", len |-> 4]
  ELSE IF Len(t) >= 2 /\ t[1] = ">" /\ t[2] = " "
  THEN [type |-> "blockquote", len |-> 2]
  ELSE [type |-> "paragraph", len |-> 0]

NodeTexts(node) ==
  IF node.nodeType = "blockquote"
  THEN IF Len(node.content) = 1 /\ node.content[1].nodeType = "paragraph"
       THEN node.content[1].content ELSE <<>>
  ELSE node.content

C19_OneNodePerLine ==
  document # NoDocument =>
    LET nonblank == SelectSeq(Split(markdown, "\n"),
                              LAMBDA l : \E n \in 1..Len(l) : ~IsSpace(l[n]))
        nodes == document.content
    IN  /\ document.nodeType = "document"
        /\ Len(nodes) = Len(nonblank)
        /\ \A n \in 1..Len(nodes) :
             LET t == Trimmed(nonblank[n])
                 m == Marker(t)
                 texts == NodeTexts(nodes[n])
             IN  /\ nodes[n].nodeType = m.type
                 /\ Len(texts) = 1
                 /\ texts[1].nodeType = "text"
                 /\ texts[1].value = SubSeq(t, m.len + 1, Len(t))
                 /\ Len(texts[1].value) > 0

\* "# a", a blank line, " a": a heading-1 and a paragraph, both holding "a"
C19_Witness ==
  /\ markdown = <<"#", " ", "a", "\n", "\n", " ", "a">>
  /\ Len(document.content) = 2
  /\ document.content[1].nodeType = "heading-1"
  /\ document.content[2].nodeType = "paragraph"
  /\ document.content[2].content[1].value = <<"a">>

(***************************************************************************)
(* C20.  In the converted content of a payload, in both modes, every body  *)
(* image whose file name is among the published asset URLs appears with    *)
(* that asset's URL and every other image is dropped: the content holds    *)
(* one image reference per matched image and none whose target is          *)
(* undefined.                                                              *)
(***************************************************************************)
\* the elements of the text of a converted content, in order
RECURSIVE Flatten(_)
Flatten(seqs) == IF Len(seqs) = 0 THEN <<>> ELSE Head(seqs) \o Flatten(Tail(seqs))

ContentText(content) ==
  IF config.contentFormat = "richtext"
  THEN Flatten([n \in 1..Len(content.content) |->
                  NodeTexts(content.content[n])[1].value])
  ELSE content

Matched(tag) == \E n \in 1..Len(ctfAssets) : FileName(ctfAssets[n]) = FileName(tag.src)

IsUndefinedImage(el) == \E tag \in {ImgA, ImgC} : el = ImageMarkdown(tag.alt, "undefined")

C20_NoUnresolvedImage ==
  \A i \in 1..Len(payloads) :
    LET text == ContentText(payloads[i].content.enUS)
        images == SelectSeq(text, LAMBDA el : el # "\n")
        matched == SelectSeq(wpPosts[i].content, Matched)
    IN  /\ \A n \in 1..Len(text) : ~IsUndefinedImage(text[n])
        /\ Len(images) = Len(matched)
        /\ \A n \in 1..Len(images) :
             \E u \in 1..Len(ctfAssets) :
               /\ FileName(ctfAssets[u]) = FileName(matched[n].src)
               /\ images[n] = ImageMarkdown(matched[n].alt, Join(ctfAssets[u], "/"))

(***************************************************************************)
(* C21.  Every entry payload is built from one normalized post and holds   *)
(* all of that post's fields except id, type and contentImages, which are  *)
(* in no payload; tags and categories are the name lists joined with ", "  *)
(* (the empty string for an empty list).                                   *)
(***************************************************************************)
JoinedNames(names) ==
  IF Len(names) = 0 THEN ""
  ELSE IF Len(names) = 1 THEN names[1]
  ELSE IF Len(names) = 2 THEN names[1] \o ", " \o names[2]
  ELSE names[1] \o ", " \o names[2] \o ", " \o names[3]

CopiedKeys == {"postTitle", "slug", "content", "publishDate", "featuredImage",
               "tags", "categories"}

PayloadOfPost(i, keys) ==
  /\ DOMAIN payloads[i] = keys
  /\ payloads[i].slug.enUS = wpPosts[i].slug
  /\ payloads[i].postTitle.enUS = wpPosts[i].postTitle
  /\ payloads[i].publishDate.enUS = wpPosts[i].publishDate
  /\ payloads[i].tags.enUS = JoinedNames(wpPosts[i].tags)
  /\ payloads[i].categories.enUS = JoinedNames(wpPosts[i].categories)

C21_PayloadHoldsAllFields ==
  /\ Len(payloads) > 0 => Len(payloads) = Len(wpPosts)
  /\ \A i \in 1..Len(payloads) : PayloadOfPost(i, CopiedKeys)

(***************************************************************************)
(* C21, amended.  As above, except that the payload of a post whose        *)
(* featuredImage is 0 has no featuredImage field either.                   *)
(***************************************************************************)
C21_PayloadFieldsButZeroFeatured ==
  /\ Len(payloads) > 0 => Len(payloads) = Len(wpPosts)
  /\ \A i \in 1..Len(payloads) :
       PayloadOfPost(i, IF wpPosts[i].featuredImage = 0
                        THEN CopiedKeys \ {"featuredImage"} ELSE CopiedKeys)

\* two payloads: one with the tags "Rust, Go" and a featuredImage link, one
\* with no tag and, its featuredImage being 0, no featuredImage field
C21_Witness ==
  /\ Len(payloads) = 2
  /\ payloads[1].tags.enUS = "Rust, Go"
  /\ payloads[1].categories.enUS = "News"
  /\ "featuredImage" \in DOMAIN payloads[1]
  /\ payloads[2].tags.enUS = ""
  /\ payloads[2].categories.enUS = "Tech, News"
  /\ "featuredImage" \notin DOMAIN payloads[2]

(***************************************************************************)
(* C22.  End to end: 2 posts without body images, post 1 with a featured   *)
(* image that resolves, post 2 with featured media 0, no destination call  *)
(* failing.  Exactly 1 asset and 2 entries are created; entry 1 links its  *)
(* featuredImage to that asset, entry 2 has no featuredImage field, both   *)
(* carry their joined tags and categories.                                 *)
(***************************************************************************)
ScenarioSite ==
  /\ Len(srcPosts) = 2
  /\ srcPosts[1].content = <<>> /\ srcPosts[2].content = <<>>
  /\ srcPosts[1].featured_media = 1 /\ srcPosts[2].featured_media = 0
  /\ result["media"].success /\ result["tags"].success
  /\ result["categories"].success

NoDestinationFailure ==
  /\ pc = "done"
  /\ \A i \in 1..Len(atask) : atask[i] = "published"
  /\ \A i \in 1..Len(etask) : etask[i] = "published"

C22_EndToEndScenario ==
  (ScenarioSite /\ NoDestinationFailure)
    => /\ Len(atask) = 1 /\ Len(assets) = 1
       /\ assets[1].fileName = "a.jpg"
       /\ Len(etask) = 2 /\ Len(payloads) = 2
       /\ payloads[1].featuredImage.enUS =
            [sys |-> [type |-> "Link", linkType |-> "Asset",
                      id |-> assets[1].assetId]]
       /\ "featuredImage" \notin DOMAIN payloads[2]
       /\ payloads[1].tags.enUS = "Rust, Go" /\ payloads[1].categories.enUS = "News"
       /\ payloads[2].tags.enUS = "" /\ payloads[2].categories.enUS = "Tech, News"

\* the scenario ran to the summary
C22_Witness == ScenarioSite /\ NoDestinationFailure /\ Len(etask) = 2

(***************************************************************************)
(* C23.  The asset stage has one asset task per image reference of the     *)
(* normalized posts, in post order and, within a post, image order: the    *)
(* k-th task uploads the k-th image reference, two references with the     *)
(* same file name have a task each, and the createAsset requests are       *)
(* issued in that order.                                                   *)
(***************************************************************************)
AssetStageBuilt == pc \in {"assets", "requery", "entries", "done"}

C23_OneAssetPerImageReference ==
  AssetStageBuilt =>
    /\ Len(atask) = ImagesBefore(Len(wpPosts) + 1)
    /\ Len(assetPromises) = Len(atask)
    /\ \A i \in 1..Len(wpPosts) :
         \A n \in 1..Len(wpPosts[i].contentImages) :
           LET k == ImagesBefore(i) + n
           IN  /\ assetPromises[k].upload = wpPosts[i].contentImages[n].link
               /\ assetPromises[k].fileName =
                    FileName(wpPosts[i].contentImages[n].link)
    /\ \A j, k \in 1..Len(atask) : (j < k /\ atask[k] # "timer") => atask[j] # "timer"

\* two image references with the same file name, one createAsset request
\* issued for each
C23_Witness ==
  /\ pc = "assets"
  /\ Len(atask) = 2
  /\ assetPromises[1].fileName = assetPromises[2].fileName
  /\ assetPromises[1].upload # assetPromises[2].upload
  /\ atask[1] # "timer" /\ atask[2] # "timer"

(***************************************************************************)
(* C24.  As stated: the listing is requested after every upload task has   *)
(* settled, and the entry stage takes both the body-image URLs and the     *)
(* asset of a featured-image link from the listing, by the first listed    *)
(* URL with the file name.                                                 *)
(* As the program does it: the body-image URLs come from the listing, the  *)
(* asset of a featured-image link is the first record with the file name   *)
(* in the collector that the upload tasks filled from their publish        *)
(* responses.                                                              *)
(***************************************************************************)
PayloadsBuilt == pc \in {"entries", "done"}

HasFeaturedLink(i) == "featuredImage" \in DOMAIN payloads[i]

\* the first element of the sequence whose file name is that of the link
FirstNamed(seq, name, link) ==
  CHOOSE k \in 1..Len(seq) :
    /\ name[k] = FileName(link)
    /\ \A m \in 1..(k - 1) : name[m] # FileName(link)

ListedNames == [n \in 1..Len(ctfAssets) |-> FileName(ctfAssets[n])]

CollectedNames == [n \in 1..Len(assets) |-> assets[n].fileName]

BodyUrlsFromListing(i) ==
  \A n \in 1..Len(wpPosts[i].content) :
    LET tag  == wpPosts[i].content[n]
        text == ContentText(payloads[i].content.enUS)
    IN  Matched(tag) =>
          \E m \in 1..Len(text) :
            text[m] = ImageMarkdown(tag.alt,
                        Join(ctfAssets[FirstNamed(ctfAssets, ListedNames, tag.src)], "/"))

ListingAfterUploads ==
  /\ pc \in {"requery", "entries", "done"} => Settled(atask)
  /\ Len(ctfAssets) > 0 => Settled(atask)

C24_AssetMapFromListing ==
  /\ ListingAfterUploads
  /\ PayloadsBuilt =>
       \A i \in 1..Len(payloads) :
         /\ BodyUrlsFromListing(i)
         /\ HasFeaturedLink(i) =>
              LET link == wpPosts[i].contentImages[1].link
              IN  /\ FileName(link) \in {ListedNames[n] : n \in 1..Len(ctfAssets)}
                  /\ ToString(payloads[i].featuredImage.enUS.sys.id) =
                       ctfAssets[FirstNamed(ctfAssets, ListedNames, link)][2]

C24_UrlsFromListingLinksFromCollector ==
  /\ ListingAfterUploads
  /\ PayloadsBuilt =>
       \A i \in 1..Len(payloads) :
         /\ BodyUrlsFromListing(i)
         /\ HasFeaturedLink(i) =>
              LET link == wpPosts[i].contentImages[1].link
              IN  /\ FileName(link) \in {CollectedNames[n] : n \in 1..Len(assets)}
                  /\ payloads[i].featuredImage.enUS.sys.id =
                       assets[FirstNamed(assets, CollectedNames, link)].assetId

\* two assets with one file name were published in the reverse of their
\* request order; the featured link of the first payload names the one the
\* collector holds first, its body-image URL the one the listing holds first
C24_Witness ==
  /\ PayloadsBuilt
  /\ Len(assets) = 2
  /\ assets[1].assetId = 2
  /\ assets[1].fileName = assets[2].fileName
  /\ ctfAssets = PublishedById
  /\ HasFeaturedLink(1)
  /\ payloads[1].featuredImage.enUS.sys.id = 2
  /\ Len(wpPosts[1].content) = 1
  /\ BodyUrlsFromListing(1)

(***************************************************************************)
(* C25.  No retry: a task issues each of its requests at most once, that   *)
(* is, in every step a task either stays where it is or moves on to a      *)
(* later state, a settled task never moves again, and the lists of tasks   *)
(* never get a task added once they exist; and the summary is logged only  *)
(* in a step taken when every entry task has settled.                      *)
(***************************************************************************)
TaskRank(st) ==
  CASE st = "timer"      -> 0
    [] st = "creating"   -> 1
    [] st = "processing" -> 2
    [] st = "publishing" -> 3
    [] st = "published"  -> 4
    [] st = "failed"     -> 4

TasksOnlyAdvance(tasks, tasksAfter) ==
  /\ Len(tasks) > 0 => Len(tasksAfter) = Len(tasks)
  /\ \A i \in 1..Len(tasks) :
       \/ tasksAfter[i] = tasks[i]
       \/ /\ tasks[i] \notin {"published", "failed"}
          /\ TaskRank(tasksAfter[i]) > TaskRank(tasks[i])

C25_NoRetrySummaryLast ==
  [][/\ TasksOnlyAdvance(etask, etask')
     /\ TasksOnlyAdvance(atask, atask')
     /\ Len(payloads) > 0 => (payloads' = payloads /\ Len(etask) = Len(payloads))
     /\ (pc # "done" /\ pc' = "done") =>
          (pc = "entries" /\ Settled(etask) /\ etask' = etask)]_vars

\* the summary was logged after an entry task failed and was not tried again
C25_Witness ==
  /\ pc = "done"
  /\ Len(etask) = 2
  /\ etask[1] = "failed"
  /\ etask[2] = "published"

(***************************************************************************)
(* C26.  Tie-break: the featured-image link of a payload names, among the  *)
(* published assets with the file name of the post's first image, the one  *)
(* with the least request index, whatever the order in which the uploads   *)
(* completed.                                                              *)
(***************************************************************************)
PublishedNamed(link) ==
  {k \in 1..Len(atask) :
     atask[k] = "published" /\ assetPromises[k].fileName = FileName(link)}

C26_FeaturedLinkFirstUploaded ==
  PayloadsBuilt =>
    \A i \in 1..Len(payloads) :
      HasFeaturedLink(i) =>
        LET named == PublishedNamed(wpPosts[i].contentImages[1].link)
        IN  /\ named # {}
            /\ \A k \in named : payloads[i].featuredImage.enUS.sys.id <= k

(***************************************************************************)
(* C27.  Staggered publishing: in both stages the create requests are      *)
(* issued in increasing index order (a task past its timer has no earlier  *)
(* task still waiting for its timer), and the task whose timer is the next *)
(* to expire can issue its request whatever the earlier tasks are doing,   *)
(* settled or still in flight.                                             *)
(***************************************************************************)
IssuedInIndexOrder(tasks) ==
  \A j, k \in 1..Len(tasks) : (j < k /\ tasks[k] # "timer") => tasks[j] # "timer"

NextToIssue(tasks, i) ==
  tasks[i] = "timer" /\ \A j \in 1..(i - 1) : tasks[j] # "timer"

InFlight(st) == st \in {"creating", "processing", "publishing"}

C27_StaggeredNotSerialized ==
  /\ IssuedInIndexOrder(atask)
  /\ IssuedInIndexOrder(etask)
  /\ \A i \in 1..Len(atask) :
       (pc = "assets" /\ NextToIssue(atask, i)) => ENABLED AssetTimer(i)
  /\ \A i \in 1..Len(etask) :
       (pc = "entries" /\ NextToIssue(etask, i)) => ENABLED EntryTimer(i)

\* the second entry's create request is pending while the first entry is
\* still being published
C27_Witness ==
  /\ pc = "entries"
  /\ Len(atask) = 2
  /\ Len(etask) = 2
  /\ etask[1] = "publishing"
  /\ etask[2] = "creating"

(***************************************************************************)
(* C28.  Asset lifecycle: a task enters processing only from a createAsset *)
(* that succeeded, publishing only from a processing that succeeded, and   *)
(* published only from a publish that succeeded, and that step is the only *)
(* one that appends to the collector, the record of this task; the         *)
(* collector holds no record of a task that is not published and at most   *)
(* one record of each task.                                                *)
(***************************************************************************)
RecordOf(i) == [assetId |-> i, fileName |-> assetPromises[i].fileName]

RecordsOfPublishedOnly ==
  /\ \A n \in 1..Len(assets) :
       /\ assets[n].assetId \in 1..Len(atask)
       /\ atask[assets[n].assetId] = "published"
       /\ assets[n] = RecordOf(assets[n].assetId)
  /\ \A n, m \in 1..Len(assets) : assets[n].assetId = assets[m].assetId => n = m

LifecycleStep ==
  /\ \A i \in 1..Len(atask) :
       atask'[i] # atask[i] =>
         /\ atask'[i] = "processing" => atask[i] = "creating"
         /\ atask'[i] = "publishing" => atask[i] = "processing"
         /\ atask'[i] = "published" =>
              (atask[i] = "publishing" /\ assets' = Append(assets, RecordOf(i)))
  /\ assets' # assets =>
       \E i \in 1..Len(atask) :
         /\ atask[i] = "publishing"
         /\ atask'[i] = "published"
         /\ assets' = Append(assets, RecordOf(i))

C28_AssetLifecycle == []RecordsOfPublishedOnly /\ [][LifecycleStep]_vars

\* the first item went through all three requests and left its record, the
\* second failed and left none
C28_Witness ==
  /\ Len(atask) = 2
  /\ atask[1] = "published"
  /\ atask[2] = "failed"
  /\ assets = <<RecordOf(1)>>

(***************************************************************************)
(* C29.  contentfulData.assets is written by one step only, the answer to  *)
(* the listing, taken when every asset task has settled; that step leaves  *)
(* the listing stage for good, so it happens once, and it is the only way  *)
(* into the entry stage.  The steps of the item tasks leave                *)
(* contentfulData.assets alone and change the collector by appending, and  *)
(* no step from the asset stage on changes the normalized posts.           *)
(***************************************************************************)
PublishingStages == {"assets", "requery", "entries", "done"}

AppendsOnly(seq, seqAfter) ==
  /\ Len(seqAfter) >= Len(seq)
  /\ SubSeq(seqAfter, 1, Len(seq)) = seq

AssetMapStep ==
  /\ ctfAssets' # ctfAssets =>
       (pc = "requery" /\ Settled(atask) /\ pc' # "requery" /\ atask' = atask)
  /\ pc' = "requery" => pc \in {"assets", "requery"}
  /\ (pc # "entries" /\ pc' = "entries") =>
       (pc = "requery" /\ ctfAssets' \in {PublishedById, Reverse(PublishedById)})
  /\ pc \in {"entries", "done"} => ctfAssets' = ctfAssets
  /\ (atask' # atask \/ (etask' # etask /\ Len(etask) > 0)) =>
       ctfAssets' = ctfAssets
  /\ AppendsOnly(assets, assets')
  /\ pc \in PublishingStages => wpPosts' = wpPosts

C29_AssetMapWrittenOnce == [][AssetMapStep]_vars

\* the listing of two published assets was stored and both entry tasks ran
\* to their end
C29_Witness ==
  /\ pc = "done"
  /\ Len(ctfAssets) = 2
  /\ Len(assets) = 2
  /\ Settled(etask)
  /\ Len(etask) = 2

(***************************************************************************)
(* C30.  The payload of a post whose source record has no featured_media   *)
(* has no featuredImage field, as the payload of a post whose              *)
(* featured_media is 0.                                                    *)
(***************************************************************************)
C30_AbsentFeaturedOmitted ==
  PayloadsBuilt =>
    \A i \in 1..Len(payloads) :
      FetchedPost(i).featured_media \in {0, Absent}
        => "featuredImage" \notin DOMAIN payloads[i]

(***************************************************************************)
(* C31.  The title and the description of every asset object are non-empty *)
(* strings: the alt text of the media record or of the <img> tag when it   *)
(* is not empty, otherwise "Featured image for post {id}" for a featured   *)
(* image and "Image from post {id}" for a body image.                      *)
(***************************************************************************)
ExpectedCaption(alt, default, id) ==
  IF alt # "" THEN alt ELSE default \o ToString(id)

C31_AssetCaptionsNotEmpty ==
  AssetStageBuilt =>
    /\ \A k \in 1..Len(assetPromises) :
         assetPromises[k].title # "" /\ assetPromises[k].description # ""
    /\ \A i \in 1..Len(wpPosts) :
         LET p   == FetchedPost(i)
             off == IF FeaturedResolves(p) THEN 1 ELSE 0
         IN  /\ FeaturedResolves(p) =>
                  LET caption == ExpectedCaption(MediaRec(p.featured_media).alt_text,
                                                 "Featured image for post ", p.id)
                  IN  /\ assetPromises[FirstAssetOf(i)].title = caption
                      /\ assetPromises[FirstAssetOf(i)].description = caption
             /\ \A n \in 1..Len(p.content) :
                  LET caption == ExpectedCaption(p.content[n].alt,
                                                 "Image from post ", p.id)
                      k == ImagesBefore(i) + off + n
                  IN  /\ assetPromises[k].title = caption
                      /\ assetPromises[k].description = caption

\* createAsset was requested for a featured image without alt text, under its
\* generated title, and for a body image under its own alt text
C31_Witness ==
  /\ pc = "assets"
  /\ Len(assetPromises) = 2
  /\ assetPromises[1].title = "Featured image for post 1"
  /\ assetPromises[2].title = "Diagram"
  /\ atask[1] # "timer" /\ atask[2] # "timer"

(***************************************************************************)
(* C32.  Against a source that serves every page it is asked for, the      *)
(* fetch returns the first min(M, N) items of the source, each once and in *)
(* source order.                                                           *)
(***************************************************************************)
C32_FirstItemsEachOnce ==
  \A k \in Kinds :
    (Returned(k) /\ ~pageFailed[k])
    => result[k].data = [i \in 1..Min(cap[k], srcCount[k]) |-> i]

(***************************************************************************)
(* C33.  The pagination loop terminates whatever the source answers: an    *)
(* iteration that does not end the loop has added at least one item, so    *)
(* the k-th request is issued with at least k - 1 items held, a running    *)
(* fetch holds fewer than M items, and no more than M + 1 requests are     *)
(* issued for a cap M.                                                     *)
(***************************************************************************)
RequestsBounded ==
  \A k \in Kinds :
    /\ Len(requests[k]) <= cap[k] + 1
    /\ \A r \in 1..Len(requests[k]) : requests[k][r].have >= r - 1
    /\ fstate[k] = "running" =>
         (Len(allData[k]) < cap[k] /\ Len(requests[k]) <= Len(allData[k]))

IterationGrowsOrStops ==
  \A k \in Kinds :
    requests'[k] # requests[k] =>
      \/ Len(allData'[k]) > Len(allData[k])
      \/ fstate'[k] = "returned"

C33_PaginationTerminates == []RequestsBounded /\ [][IterationGrowsOrStops]_vars

\* a fetch that got one item per page until the cap of 3 was reached, in 3
\* requests
C33_Witness ==
  /\ Returned("posts")
  /\ cap["posts"] = 3
  /\ Len(requests["posts"]) = 3
  /\ Len(result["posts"].data) = 3
  /\ ~pageFailed["posts"]

(***************************************************************************)
(* C34.  A featuredImage link of a payload names the asset uploaded from   *)
(* the featured image reference of its post: the first image of the post   *)
(* is its featured image, and the linked asset is the one built from it.   *)
(***************************************************************************)
C34_FeaturedLinkToFeaturedAsset ==
  PayloadsBuilt =>
    \A i \in 1..Len(payloads) :
      HasFeaturedLink(i) =>
        /\ wpPosts[i].contentImages[1].featured
        /\ payloads[i].featuredImage.enUS.sys.id = FirstAssetOf(i)

(***************************************************************************)
(* C35.  Entry creation is all or nothing: the entry tasks exist only when *)
(* the payload of every post has been built.  Building throws exactly when *)
(* some post has a positive featuredImage and no first image, or a first   *)
(* image whose file name has no record in the collector; then there is no  *)
(* payload and no entry task in the run, whatever the other posts are.     *)
(***************************************************************************)
PayloadThrows(post) ==
  /\ post.featuredImage > 0
  /\ \/ Len(post.contentImages) = 0
     \/ \A n \in 1..Len(assets) :
          assets[n].fileName # FileName(post.contentImages[1].link)

C35_EntriesAllOrNothing ==
  /\ postsThrew =>
       /\ Len(payloads) = 0
       /\ Len(etask) = 0
       /\ pc \in {"crashed", "exited"}
  /\ (PayloadsBuilt \/ postsThrew) =>
       postsThrew = (\E i \in 1..Len(wpPosts) : PayloadThrows(wpPosts[i]))
  /\ Len(etask) > 0 =>
       /\ ~postsThrew
       /\ Len(etask) = Len(wpPosts)
       /\ Len(payloads) = Len(wpPosts)

\* the payload of the first post could not be built (its featured image was
\* not uploaded); the second post, which has no featured image, got no entry
\* either
C35_Witness ==
  /\ postsThrew
  /\ Len(wpPosts) = 2
  /\ PayloadThrows(wpPosts[1])
  /\ wpPosts[2].featuredImage = 0
  /\ Len(etask) = 0
  /\ Settled(atask)

(***************************************************************************)
(* C36.  A failed listing request ends the run before the entry stage: the *)
(* entry stage is entered only by the step that stores the answered        *)
(* listing, and in a run that stopped after the asset stage without an     *)
(* exception of the payload building there is no stored listing, no        *)
(* payload and no entry task, the summary is never logged, and the asset   *)
(* tasks and the records of the published assets stay as they were.        *)
(***************************************************************************)
StoppedAtListing ==
  /\ \/ pc = "crashed"
     \/ pc = "exited" /\ exitReason = "unhandled rejection"
  /\ ~postsThrew

NoEntryStage ==
  StoppedAtListing =>
    /\ Len(ctfAssets) = 0
    /\ Len(payloads) = 0
    /\ Len(etask) = 0
    /\ Settled(atask)
    /\ \A j \in 1..Len(atask) : atask[j] = "published" => Recorded(j)

ListingStep ==
  /\ (pc # "entries" /\ pc' = "entries") =>
       /\ pc = "requery"
       /\ ctfAssets' \in {PublishedById, Reverse(PublishedById)}
       /\ Len(payloads') = Len(wpPosts)
  /\ StoppedAtListing =>
       /\ StoppedAtListing'
       /\ atask' = atask
       /\ assets' = assets
       /\ pc' \notin {"entries", "done"}

C36_NoEntriesAfterFailedListing == []NoEntryStage /\ [][ListingStep]_vars

\* two assets were published, the listing request failed, and the process
\* ended without a payload, an entry task or a summary
C36_Witness ==
  /\ pc = "exited"
  /\ StoppedAtListing
  /\ Len(atask) = 2
  /\ atask[1] = "published" /\ atask[2] = "published"
  /\ Len(assets) = 2
  /\ Len(etask) = 0

(***************************************************************************)
(* C37.  The four fetches run concurrently: while the fetches are going on *)
(* every fetch that has not returned can take its next page, whatever the  *)
(* others have done.  Whatever the order in which they return, the lookup  *)
(* for a kind yields the one collection the fetch of that kind returned,   *)
(* under its own endpoint name, or nothing when that fetch failed; the     *)
(* labels of a post are then resolved in the collection of their own kind, *)
(* and are empty when that collection is missing.                          *)
(***************************************************************************)
Fetched(k) ==
  [success |-> TRUE, data |-> result[k].data,
   error |-> result[k].error, endpoint |-> k]

C37_CollectionsUnderOwnKind ==
  /\ pc = "fetching" =>
       \A k \in Kinds : fstate[k] = "running" => ENABLED FetchPageOk(k)
  /\ Len(apiData) > 0 =>
       /\ \A k \in Kinds :
            getApiDataType(apiData, k) =
              IF result[k].success THEN <<Fetched(k)>> ELSE <<>>
       /\ \A i \in 1..Len(wpPosts) :
            \A k \in {"tags", "categories"} :
              /\ ~result[k].success => wpPosts[i][k] = <<>>
              /\ \A n \in 1..Len(wpPosts[i][k]) :
                   \E id \in FetchedIds(k) : wpPosts[i][k][n] = LabelName(k, id)

\* the tags fetch failed while the other three succeeded: the first post,
\* which carries tag IDs, has no tag and has its category
C37_Witness ==
  /\ Len(apiData) > 0
  /\ ~result["tags"].success
  /\ result["categories"].success /\ result["media"].success
  /\ Len(wpPosts) >= 1
  /\ Len(FetchedPost(1).tags) > 0
  /\ wpPosts[1].tags = <<>>
  /\ wpPosts[1].categories = <<"News">>
====
